---- MODULE Spec2Model ----
(***************************************************************************)
(* Seq80x25: the audio-effects processor (src/audio_effects.py).           *)
(*                                                                         *)
(* Samples and parameters are exact rationals <<n, d>> with d > 0 in       *)
(* lowest terms.  The three non-finite values numpy produces are kept:     *)
(* <<1, 0>> is +inf, <<-1, 0>> is -inf and <<0, 0>> is nan.  Rounding of   *)
(* finite values is not modelled.  A buffer is a sequence of samples; the  *)
(* source's index i is position i + 1 of the sequence.                     *)
(***************************************************************************)
EXTENDS Integers, Sequences, FiniteSets, TLC

\* an AudioEffects processor and the caller of its methods
VARIABLES sample_rate, delay_buffer, delay_index, pc, chain, last, prev_result

\* AudioEffects instances used by concurrent streams of apply_delay calls
VARIABLES instances, streams

\* a NoteGrid, its play_sequence tasks and the last call made on it
VARIABLES notes, tempo, is_playing, playhead, tasks, grid_call

fx_vars == <<sample_rate, delay_buffer, delay_index, pc, chain, last, prev_result>>

stream_vars == <<instances, streams>>

grid_vars == <<notes, tempo, is_playing, playhead, tasks, grid_call>>

\* the project manager: its dict of projects, the open project, the projects
\* directory on disk, and the last call with its outcome
VARIABLES projects, current_project, disk, pm_call
pm_vars == <<projects, current_project, disk, pm_call>>

vars == <<fx_vars, stream_vars, grid_vars, pm_vars>>

(***************************************************************************)
(* Bounds of the model.                                                    *)
(***************************************************************************)
MaxLen == 3

MaxChain == 2
\* play_sequence tasks alive at a time
MaxTasks == 2

(***************************************************************************)
(* Arithmetic on samples.                                                  *)
(***************************************************************************)
IAbs(i) == IF i < 0 THEN -i ELSE i

Sgn(i) == IF i > 0 THEN 1 ELSE IF i < 0 THEN -1 ELSE 0

RECURSIVE Gcd(_, _)
Gcd(a, b) == IF b = 0 THEN a ELSE Gcd(b, a % b)

Norm(n, d) ==
  IF d = 0 THEN <<Sgn(n), 0>>
  ELSE LET g == Gcd(IAbs(n), IAbs(d))
       IN  <<Sgn(d) * (n \div g), IAbs(d) \div g>>

Q(n, d) == Norm(n, d)

Zero == <<0, 1>>

One == <<1, 1>>

NaN == <<0, 0>>

IsFinite(x) == x[2] > 0

IsNaN(x) == x = NaN

RAdd(x, y) ==
  IF x[2] = 0 /\ y[2] = 0 THEN (IF x = y THEN x ELSE NaN)
  ELSE IF x[2] = 0 THEN x
  ELSE IF y[2] = 0 THEN y
  ELSE LET g == Gcd(x[2], y[2])
       IN  Norm(x[1] * (y[2] \div g) + y[1] * (x[2] \div g), (x[2] \div g) * y[2])

RNeg(x) == <<-x[1], x[2]>>

RSub(x, y) == RAdd(x, RNeg(y))

RMul(x, y) ==
  IF x[2] = 0 \/ y[2] = 0 THEN <<Sgn(x[1]) * Sgn(y[1]), 0>>
  ELSE IF x[1] = 0 \/ y[1] = 0 THEN Zero
  ELSE LET g == Gcd(IAbs(x[1]), y[2])
           h == Gcd(IAbs(y[1]), x[2])
       IN  <<(x[1] \div g) * (y[1] \div h), (x[2] \div h) * (y[2] \div g)>>

\* numpy's true division: x / 0 is +inf, -inf or nan, never an exception
RDiv(x, y) ==
  IF y[2] = 0
  THEN (IF IsNaN(y) \/ x[2] = 0 THEN NaN ELSE Zero)
  ELSE IF y[1] = 0 \/ x[2] = 0 THEN <<Sgn(x[1]) * (IF y[1] < 0 THEN -1 ELSE 1), 0>>
  ELSE RMul(x, <<Sgn(y[1]) * y[2], IAbs(y[1])>>)

RAbs(x) == <<IAbs(x[1]), x[2]>>

\* comparisons with nan are false
RLt(x, y) ==
  IF IsNaN(x) \/ IsNaN(y) THEN FALSE
  ELSE IF x[2] = 0 /\ y[2] = 0 THEN x[1] < y[1]
  ELSE IF x[2] = 0 THEN x[1] < 0
  ELSE IF y[2] = 0 THEN y[1] > 0
  ELSE x[1] * y[2] < y[1] * x[2]

RGt(x, y) == RLt(y, x)

RLe(x, y) == ~IsNaN(x) /\ ~IsNaN(y) /\ ~RLt(y, x)

RGe(x, y) == RLe(y, x)

RMin(x, y) == IF IsNaN(x) \/ IsNaN(y) THEN NaN ELSE IF RLt(y, x) THEN y ELSE x

RMax(x, y) == IF IsNaN(x) \/ IsNaN(y) THEN NaN ELSE IF RLt(x, y) THEN y ELSE x

\* Python's int(): truncation towards zero of a finite value
PyInt(x) == IF x[1] >= 0 THEN x[1] \div x[2] ELSE -((-x[1]) \div x[2])

FromInt(i) == <<i, 1>>

\* F applied to the value of v, which is computed once
Bind(v, F(_)) == CHOOSE r \in {F(x) : x \in {v}} : TRUE

(***************************************************************************)
(* Buffers (numpy arrays) and the outcome of a call: a returned buffer or  *)
(* the exception that left the call.                                       *)
(***************************************************************************)
At(buf, i) == buf[i + 1]

Put(buf, i, x) == [buf EXCEPT ![i + 1] = x]

Zeros(n) == [k \in 1..n |-> Zero]

Scale(c, buf) == [k \in 1..Len(buf) |-> RMul(c, buf[k])]

RECURSIVE SeqSum(_)
SeqSum(s) == IF s = <<>> THEN Zero ELSE RAdd(Head(s), SeqSum(Tail(s)))

RECURSIVE SeqMax(_)
SeqMax(s) == IF Len(s) = 1 THEN s[1] ELSE RMax(s[1], SeqMax(Tail(s)))

AbsAll(buf) == [k \in 1..Len(buf) |-> RAbs(buf[k])]

Returns(buf) == [err |-> "none", val |-> buf]

Raises(name) == [err |-> name, val |-> <<>>]

\* numpy's x + y on one-dimensional arrays: equal lengths, or one of length 1
\* broadcast over the other; anything else is a ValueError
BroadcastAdd(x, y) ==
  IF Len(x) = Len(y) THEN Returns([k \in 1..Len(x) |-> RAdd(x[k], y[k])])
  ELSE IF Len(x) = 1 THEN Returns([k \in 1..Len(y) |-> RAdd(x[1], y[k])])
  ELSE IF Len(y) = 1 THEN Returns([k \in 1..Len(x) |-> RAdd(x[k], y[1])])
  ELSE Raises("ValueError")

\* np.linspace(start, stop, num), endpoint included
Linspace(start, stop, num) ==
  [k \in 1..num |->
     IF num = 1 THEN start
     ELSE RAdd(start, RMul(Q(k - 1, num - 1), RSub(stop, start)))]

\* np.exp, by the rational approximant 1 + x + x^2/2 of e^x for x >= 0 and
\* its reciprocal for x < 0: positive, monotone and 1 at 0
Exp(x) ==
  LET a == RAbs(x)
      p == RAdd(One, RAdd(a, RDiv(RMul(a, a), Q(2, 1))))
  IN  IF RLt(x, Zero) THEN RDiv(One, p) ELSE p

\* np.sin(2 * np.pi * turns), by Bhaskara's rational approximation
\* sin(pi * x) ~ 16 x (1 - x) / (5 - 4 x (1 - x)) on each half period
SinTurns(turns) ==
  LET whole == IF turns[1] >= 0 THEN turns[1] \div turns[2]
               ELSE -(((-turns[1]) + turns[2] - 1) \div turns[2])
      frac == RSub(turns, FromInt(whole))
      half == RLt(frac, Q(1, 2))
      x == IF half THEN RMul(Q(2, 1), frac) ELSE RSub(RMul(Q(2, 1), frac), One)
      u == RMul(x, RSub(One, x))
      b == RDiv(RMul(Q(16, 1), u), RSub(Q(5, 1), RMul(Q(4, 1), u)))
  IN  IF half THEN b ELSE RNeg(b)

\* np.tanh, by the Pade approximant x (27 + x^2) / (27 + 9 x^2), which reaches
\* 1 at x = 3, and the limit 1 beyond
Tanh(x) ==
  LET a == RAbs(x)
      t == IF RGe(a, Q(3, 1)) THEN One
           ELSE RDiv(RMul(a, RAdd(Q(27, 1), RMul(a, a))),
                     RAdd(Q(27, 1), RMul(Q(9, 1), RMul(a, a))))
  IN  IF RLt(x, Zero) THEN RNeg(t) ELSE t

\* np.clip(x, lo, hi) = minimum(maximum(x, lo), hi)
\* a clip that bounds from below only
ClipBelow(x, lo, hi) == RMax(x, lo)

\* np.clip(x, lo, hi)
Clip(x, lo, hi) == RMin(RMax(x, lo), hi)

\* np.convolve(a, v, mode='full')[k]
ConvolveFullAt(a, v, k) ==
  SeqSum([j \in 1..Len(a) |->
            IF k - (j - 1) >= 0 /\ k - (j - 1) < Len(v)
            THEN RMul(a[j], At(v, k - (j - 1))) ELSE Zero])

\* np.convolve(a, v, mode='same'): the centre max(len a, len v) samples of the
\* full convolution; an empty operand is a ValueError
ConvolveSame(a, v) ==
  IF Len(a) = 0 \/ Len(v) = 0 THEN Raises("ValueError")
  ELSE LET n == IF Len(a) < Len(v) THEN Len(a) ELSE Len(v)
           m == IF Len(a) < Len(v) THEN Len(v) ELSE Len(a)
           start == (n - 1) - (n \div 2)
       IN  Returns([k \in 1..m |-> ConvolveFullAt(a, v, start + k - 1)])

(***************************************************************************)
(* AudioEffects: the eight stages.  sr is self.sample_rate.                *)
(***************************************************************************)
EffectType ==
  {"REVERB", "DELAY", "CHORUS", "FLANGER", "DISTORTION", "FILTER", "COMPRESSOR", "TREMOLO"}

\* ---- apply_reverb -------------------------------------------------------
ReverbLength(sr, room_size) == PyInt(RMul(RMul(room_size, FromInt(sr)), Q(1, 10)))

\* noise is the draw of np.random.randn(reverb_length)
ReverbImpulse(reverb_length, damping, noise) ==
  Bind(Linspace(Zero, One, reverb_length), LAMBDA lin :
    Bind([k \in 1..reverb_length |-> RMul(noise[k], Exp(RNeg(RMul(damping, lin[k]))))],
         LAMBDA impulse :
      Bind(SeqSum(AbsAll(impulse)), LAMBDA total :
        [k \in 1..reverb_length |-> RMul(RDiv(impulse[k], total), Q(3, 10))])))

ReverbDegenerate(room_size) == RLe(room_size, Zero)

apply_reverb(sr, audio, room_size, damping, noise) ==
  IF ReverbDegenerate(room_size) THEN Returns(audio)
  ELSE LET reverb_length == ReverbLength(sr, room_size)
           wet_mix == room_size
           dry_mix == RSub(One, wet_mix)
       IN  Bind(ReverbImpulse(reverb_length, damping, noise), LAMBDA impulse :
             Bind(ConvolveSame(audio, impulse), LAMBDA reverb_audio :
               IF reverb_audio.err # "none" THEN reverb_audio
               ELSE BroadcastAdd(Scale(dry_mix, audio), Scale(wet_mix, reverb_audio.val))))

\* ---- apply_delay --------------------------------------------------------
DelaySamples(sr, delay_time) == PyInt(RMul(delay_time, FromInt(sr)))

DelayDegenerate(delay_time, feedback) == RLe(delay_time, Zero) \/ RLe(feedback, Zero)

\* the slot of the delay line that sample i reads
DelayTap(st) == st.delay_buffer[st.delay_index + 1]

\* a cursor that stays where it is
DelayAdvanceStuck(index, capacity) == index

\* self.delay_index = (self.delay_index + 1) % len(self.delay_buffer)
DelayAdvance(index, capacity) == (index + 1) % capacity

\* a loop body that adds the tap for every i, also before delay_samples
DelayStepUngated(audio, delay_samples, feedback, i, st) ==
  [output |-> Put(st.output, i, RAdd(At(st.output, i), RMul(DelayTap(st), feedback))),
   delay_buffer |-> [st.delay_buffer EXCEPT ![st.delay_index + 1] = At(audio, i)],
   delay_index |-> DelayAdvance(st.delay_index, Len(st.delay_buffer))]

\* a loop body that writes and advances only once i has reached delay_samples
DelayStepWriteGated(audio, delay_samples, feedback, i, st) ==
  IF i >= delay_samples
  THEN [output |-> Put(st.output, i, RAdd(At(st.output, i), RMul(DelayTap(st), feedback))),
        delay_buffer |-> [st.delay_buffer EXCEPT ![st.delay_index + 1] = At(audio, i)],
        delay_index |-> DelayAdvance(st.delay_index, Len(st.delay_buffer))]
  ELSE st

\* a loop body that stores the sample before it reads the tap
DelayStepWriteFirst(audio, delay_samples, feedback, i, st) ==
  [output |-> IF i >= delay_samples
              THEN Put(st.output, i, RAdd(At(st.output, i), RMul(At(audio, i), feedback)))
              ELSE st.output,
   delay_buffer |-> [st.delay_buffer EXCEPT ![st.delay_index + 1] = At(audio, i)],
   delay_index |-> DelayAdvance(st.delay_index, Len(st.delay_buffer))]

\* one pass of the loop body, for sample i; st holds output and the delay line
DelayStep(audio, delay_samples, feedback, i, st) ==
  LET out1 == IF i >= delay_samples
              THEN Put(st.output, i, RAdd(At(st.output, i), RMul(DelayTap(st), feedback)))
              ELSE st.output
  IN  [output |-> out1,
       delay_buffer |-> [st.delay_buffer EXCEPT ![st.delay_index + 1] = At(audio, i)],
       delay_index |-> DelayAdvance(st.delay_index, Len(st.delay_buffer))]

RECURSIVE DelayLoop(_, _, _, _, _)
DelayLoop(audio, delay_samples, feedback, i, st) ==
  IF i >= Len(audio) THEN st
  ELSE Bind(DelayStep(audio, delay_samples, feedback, i, st), LAMBDA st1 :
         DelayLoop(audio, delay_samples, feedback, i + 1, st1))

\* (1 - mix) * audio + mix * output
DelayMix(audio, output, mix) ==
  BroadcastAdd(Scale(RSub(One, mix), audio), Scale(mix, output))

\* returns the outcome and the delay line the call leaves behind
apply_delay(self, audio, delay_time, feedback, mix) ==
  IF DelayDegenerate(delay_time, feedback)
  THEN [res |-> Returns(audio), delay_buffer |-> self.delay_buffer,
        delay_index |-> self.delay_index]
  ELSE LET delay_samples == DelaySamples(self.sample_rate, delay_time)
           st == DelayLoop(audio, delay_samples, feedback, 0,
                           [output |-> audio, delay_buffer |-> self.delay_buffer,
                            delay_index |-> self.delay_index])
       IN  Bind(st, LAMBDA end :
             [res |-> DelayMix(audio, end.output, mix),
              delay_buffer |-> end.delay_buffer, delay_index |-> end.delay_index])

\* ---- the LFO of chorus, flanger and tremolo -----------------------------
LfoTime(sr, n) == Linspace(Zero, Q(n, sr), n)

LfoSin(sr, n, rate) ==
  Bind(LfoTime(sr, n), LAMBDA t : [k \in 1..n |-> SinTurns(RMul(rate, t[k]))])

LfoOffsets(sr, n, rate, depth) ==
  Bind(LfoSin(sr, n, rate), LAMBDA sin :
    [k \in 1..n |-> PyInt(RMul(RMul(sin[k], depth), FromInt(sr)))])

LfoDegenerate(rate, depth) == RLe(rate, Zero) \/ RLe(depth, Zero)

\* ---- apply_chorus -------------------------------------------------------
RECURSIVE ChorusLoop(_, _, _, _)
ChorusLoop(audio, offsets, i, chorus_audio) ==
  IF i >= Len(audio) THEN Returns(chorus_audio)
  ELSE LET delay_samples == offsets[i + 1]
       IN  IF i >= delay_samples
           THEN (IF i - delay_samples >= Len(audio) THEN Raises("IndexError")
                 ELSE ChorusLoop(audio, offsets, i + 1,
                                 Put(chorus_audio, i, At(audio, i - delay_samples))))
           ELSE ChorusLoop(audio, offsets, i + 1, chorus_audio)

apply_chorus(sr, audio, rate, depth, mix) ==
  IF LfoDegenerate(rate, depth) THEN Returns(audio)
  ELSE Bind(LfoOffsets(sr, Len(audio), rate, depth), LAMBDA offsets :
         Bind(ChorusLoop(audio, offsets, 0, Zeros(Len(audio))), LAMBDA chorus_audio :
           IF chorus_audio.err # "none" THEN chorus_audio
           ELSE BroadcastAdd(Scale(RSub(One, mix), audio), Scale(mix, chorus_audio.val))))

\* ---- apply_flanger ------------------------------------------------------
RECURSIVE FlangerLoop(_, _, _, _)
FlangerLoop(offsets, feedback, i, output) ==
  IF i >= Len(output) THEN Returns(output)
  ELSE LET delay_samples == offsets[i + 1]
       IN  IF i >= delay_samples
           THEN (IF i - delay_samples >= Len(output) THEN Raises("IndexError")
                 ELSE Bind(Put(output, i, RAdd(At(output, i),
                                               RMul(feedback, At(output, i - delay_samples)))),
                           LAMBDA output1 : FlangerLoop(offsets, feedback, i + 1, output1)))
           ELSE FlangerLoop(offsets, feedback, i + 1, output)

\* a flanger that returns the buffer of the feedback pass as it is
FlangerNormalizeNone(output) == Returns(output)

\* np.max(np.abs(output)) has no value on an empty array
FlangerNormalize(output) ==
  IF Len(output) = 0 THEN Raises("ValueError")
  ELSE Bind(SeqMax(AbsAll(output)), LAMBDA peak :
         IF RGt(peak, Zero)
         THEN Returns([k \in 1..Len(output) |-> RMul(RDiv(output[k], peak), Q(8, 10))])
         ELSE Returns(output))

apply_flanger(sr, audio, rate, depth, feedback) ==
  IF LfoDegenerate(rate, depth) THEN Returns(audio)
  ELSE Bind(LfoOffsets(sr, Len(audio), rate, depth), LAMBDA offsets :
         Bind(FlangerLoop(offsets, feedback, 0, audio), LAMBDA output :
           IF output.err # "none" THEN output ELSE FlangerNormalize(output.val)))

\* ---- apply_distortion ---------------------------------------------------
DistortionDegenerate(amount) == RLe(amount, Zero)

apply_distortion(audio, amount, type_) ==
  IF DistortionDegenerate(amount) THEN Returns(audio)
  ELSE IF type_ = "soft"
  THEN Returns([k \in 1..Len(audio) |->
                  Tanh(RMul(audio[k], RAdd(One, RMul(amount, Q(5, 1)))))])
  ELSE IF type_ = "hard"
  THEN LET threshold == RSub(One, amount)
       IN  Returns([k \in 1..Len(audio) |-> Clip(audio[k], RNeg(threshold), threshold)])
  ELSE Returns([k \in 1..Len(audio) |->
                  Clip(RMul(audio[k], RAdd(One, RMul(amount, Q(2, 1)))),
                       Q(-8, 10), Q(8, 10))])

\* ---- apply_filter -------------------------------------------------------
\* a guard that lets cutoff = 0 through to the filter loops
FilterDegenerateStrict(cutoff) == RLt(cutoff, Zero)

FilterDegenerate(cutoff) == RLe(cutoff, Zero)

NormalizedCutoff(sr, cutoff) == RDiv(RMul(Q(2, 1), cutoff), FromInt(sr))

\* a loop that feeds the last output back with weight b
RECURSIVE LowpassLoopEven(_, _, _, _, _)
LowpassLoopEven(audio, b, a, i, output) ==
  IF i >= Len(audio) THEN output
  ELSE Bind(Put(output, i, RAdd(RMul(b, At(audio, i)), RMul(b, At(output, i - 1)))),
            LAMBDA output1 : LowpassLoopEven(audio, b, a, i + 1, output1))

RECURSIVE LowpassLoop(_, _, _, _, _)
LowpassLoop(audio, b, a, i, output) ==
  IF i >= Len(audio) THEN output
  ELSE Bind(Put(output, i, RAdd(RMul(b, At(audio, i)), RMul(a, At(output, i - 1)))),
            LAMBDA output1 : LowpassLoop(audio, b, a, i + 1, output1))

RECURSIVE HighpassLoop(_, _, _, _)
HighpassLoop(audio, a, i, output) ==
  IF i >= Len(audio) THEN output
  ELSE Bind(Put(output, i,
                RMul(a, RSub(RAdd(At(output, i - 1), At(audio, i)), At(audio, i - 1)))),
            LAMBDA output1 : HighpassLoop(audio, a, i + 1, output1))

\* np.sin and np.cos of an angle in radians, by their Taylor polynomials
SinRad(x) == RSub(x, RDiv(RMul(x, RMul(x, x)), Q(6, 1)))

CosRad(x) == RSub(One, RDiv(RMul(x, x), Q(2, 1)))

BandpassCoefficients(w0, q) ==
  LET alpha == RDiv(SinRad(w0), RMul(Q(2, 1), q))
  IN  [b0 |-> alpha, b1 |-> Zero, b2 |-> RNeg(alpha), a0 |-> RAdd(One, alpha),
       a1 |-> RMul(Q(-2, 1), CosRad(w0)), a2 |-> RSub(One, alpha)]

\* a loop without the feedback of earlier outputs
RECURSIVE BandpassLoopForward(_, _, _, _)
BandpassLoopForward(audio, c, i, output) ==
  IF i >= Len(audio) THEN output
  ELSE Bind(Put(output, i,
                RDiv(RAdd(RMul(c.b0, At(audio, i)), RMul(c.b2, At(audio, i - 2))), c.a0)),
            LAMBDA output1 : BandpassLoopForward(audio, c, i + 1, output1))

RECURSIVE BandpassLoop(_, _, _, _)
BandpassLoop(audio, c, i, output) ==
  IF i >= Len(audio) THEN output
  ELSE Bind(Put(output, i,
                RDiv(RSub(RSub(RAdd(RAdd(RMul(c.b0, At(audio, i)), RMul(c.b1, At(audio, i - 1))),
                                    RMul(c.b2, At(audio, i - 2))),
                               RMul(c.a1, At(output, i - 1))),
                          RMul(c.a2, At(output, i - 2))),
                     c.a0)),
            LAMBDA output1 : BandpassLoop(audio, c, i + 1, output1))

apply_filter(sr, audio, filter_type, cutoff, resonance) ==
  IF FilterDegenerate(cutoff) THEN Returns(audio)
  ELSE LET normalized_cutoff == NormalizedCutoff(sr, cutoff)
           b == normalized_cutoff
           a == RSub(One, b)
       IN  IF filter_type = "lowpass"
           THEN (IF Len(audio) = 0 THEN Raises("IndexError")
                 ELSE Returns(LowpassLoop(audio, b, a, 1,
                                Put(Zeros(Len(audio)), 0, RMul(b, At(audio, 0))))))
           ELSE IF filter_type = "highpass"
           THEN (IF Len(audio) = 0 THEN Raises("IndexError")
                 ELSE Returns(HighpassLoop(audio, a, 1,
                                Put(Zeros(Len(audio)), 0, At(audio, 0)))))
           ELSE IF filter_type = "bandpass"
           THEN Bind(BandpassCoefficients(normalized_cutoff, resonance), LAMBDA c :
                  Returns(BandpassLoop(audio, c, 2, Zeros(Len(audio)))))
           ELSE Returns(audio)

\* ---- apply_compressor ---------------------------------------------------
CompressorDegenerate(threshold, ratio) == RLe(threshold, Zero) \/ RLe(ratio, One)

AttackSamples(sr, attack) == PyInt(RMul(attack, FromInt(sr)))

ReleaseSamples(sr, release) == PyInt(RMul(release, FromInt(sr)))

\* an envelope kept on the processor: it starts where the last sample of the
\* previous compressor call drove it
EnvelopeCarried ==
  IF last.kind = "stage" /\ last.type = "COMPRESSOR" /\ Len(last.audio) > 0
  THEN RAbs(last.audio[Len(last.audio)])
  ELSE Zero

\* envelope = 0
EnvelopeInit == Zero

EnvelopeUpdate(x, envelope, attack_samples, release_samples) ==
  IF RGt(RAbs(x), envelope)
  THEN RAdd(envelope, RDiv(RSub(RAbs(x), envelope), FromInt(attack_samples)))
  ELSE RAdd(envelope, RDiv(RSub(RAbs(x), envelope), FromInt(release_samples)))

\* a compressor that applies the gain to every sample
GainAppliedAlways(envelope, threshold) == TRUE

\* if envelope > threshold: the branch that divides gain by envelope
GainApplied(envelope, threshold) == RGt(envelope, threshold)

\* a compressor whose gain leaves ratio out
CompressSampleFlat(x, envelope, threshold, ratio) ==
  IF GainApplied(envelope, threshold)
  THEN RMul(x, RDiv(threshold, envelope))
  ELSE x

\* a compressor whose gain multiplies the excess by ratio
CompressSampleExpand(x, envelope, threshold, ratio) ==
  IF GainApplied(envelope, threshold)
  THEN RMul(x, RDiv(RAdd(threshold, RMul(RSub(envelope, threshold), ratio)), envelope))
  ELSE x

CompressSample(x, envelope, threshold, ratio) ==
  IF GainApplied(envelope, threshold)
  THEN LET gain == RAdd(threshold, RDiv(RSub(envelope, threshold), ratio))
       IN  RMul(x, RDiv(gain, envelope))
  ELSE x

RECURSIVE CompressorLoop(_, _, _, _, _, _, _, _)
CompressorLoop(audio, threshold, ratio, attack_samples, release_samples, i, envelope, output) ==
  IF i >= Len(audio) THEN [output |-> output, envelope |-> envelope]
  ELSE Bind(EnvelopeUpdate(At(audio, i), envelope, attack_samples, release_samples),
            LAMBDA env1 :
         Bind(Put(output, i, CompressSample(At(audio, i), env1, threshold, ratio)),
              LAMBDA output1 :
           CompressorLoop(audio, threshold, ratio, attack_samples, release_samples, i + 1,
                          env1, output1)))

apply_compressor(sr, audio, threshold, ratio, attack, release) ==
  IF CompressorDegenerate(threshold, ratio) THEN Returns(audio)
  ELSE Returns(CompressorLoop(audio, threshold, ratio, AttackSamples(sr, attack),
                              ReleaseSamples(sr, release), 0, EnvelopeInit,
                              Zeros(Len(audio))).output)

\* ---- apply_tremolo ------------------------------------------------------
apply_tremolo(sr, audio, rate, depth) ==
  IF LfoDegenerate(rate, depth) THEN Returns(audio)
  ELSE Bind(LfoSin(sr, Len(audio), rate), LAMBDA sin :
         Bind([k \in 1..Len(audio) |->
                 RSub(One, RDiv(RMul(depth, RAdd(One, sin[k])), Q(2, 1)))],
              LAMBDA lfo : Returns([k \in 1..Len(audio) |-> RMul(audio[k], lfo[k])])))

(***************************************************************************)
(* The processor and its callers.                                          *)
(*                                                                         *)
(* sample_rate, delay_buffer and delay_index are the fields of one         *)
(* AudioEffects instance.  A caller invokes one stage (a whole call is one *)
(* step) or apply_multiple_effects, whose loop takes one step per entry;   *)
(* calls do not overlap.  last records the most recent call: its           *)
(* arguments, the delay line it started from and its outcome.  A call made *)
(* again with the arguments of the call just before it keeps that call's   *)
(* outcome in prev_result.                                                 *)
(***************************************************************************)
Self == [sample_rate |-> sample_rate, delay_buffer |-> delay_buffer,
         delay_index |-> delay_index]

\* np.zeros(sample_rate * 2)
Capacity(sr) == sr * 2

\* a stage that moves the cursor of the delay line
PureAdvancing(self, res) ==
  [res |-> res, delay_buffer |-> self.delay_buffer,
   delay_index |-> (self.delay_index + 1) % Len(self.delay_buffer)]

\* a stage method called with keyword arguments params
Pure(self, res) ==
  [res |-> res, delay_buffer |-> self.delay_buffer, delay_index |-> self.delay_index]

StageCall(self, audio, type, params) ==
  LET sr == self.sample_rate
  IN  CASE type = "REVERB" ->
             Pure(self, apply_reverb(sr, audio, params.room_size, params.damping, params.noise))
        [] type = "DELAY" ->
             apply_delay(self, audio, params.delay_time, params.feedback, params.mix)
        [] type = "CHORUS" ->
             Pure(self, apply_chorus(sr, audio, params.rate, params.depth, params.mix))
        [] type = "FLANGER" ->
             Pure(self, apply_flanger(sr, audio, params.rate, params.depth, params.feedback))
        [] type = "DISTORTION" ->
             Pure(self, apply_distortion(audio, params.amount, params.type_))
        [] type = "FILTER" ->
             Pure(self, apply_filter(sr, audio, params.filter_type, params.cutoff, params.resonance))
        [] type = "COMPRESSOR" ->
             Pure(self, apply_compressor(sr, audio, params.threshold, params.ratio,
                                   params.attack, params.release))
        [] type = "TREMOLO" ->
             Pure(self, apply_tremolo(sr, audio, params.rate, params.depth))

(***************************************************************************)
(* Which array a stage writes to.  Arrays are told apart by a tag: "arg"   *)
(* is the array the stage was given, "audio" the caller's array.           *)
(***************************************************************************)
\* output = audio: another name for the same array
NpAlias(ref) == ref

\* np.copy(audio): a new array
NpCopy(ref) == "copy"

\* the stage hands back the array it was given: the degenerate guards and the
\* filter type that matches no branch
ReturnsArgument(type, params) ==
  CASE type = "REVERB" -> ReverbDegenerate(params.room_size)
    [] type = "DELAY" -> DelayDegenerate(params.delay_time, params.feedback)
    [] type \in {"CHORUS", "FLANGER", "TREMOLO"} -> LfoDegenerate(params.rate, params.depth)
    [] type = "DISTORTION" -> DistortionDegenerate(params.amount)
    [] type = "FILTER" ->
         \/ FilterDegenerate(params.cutoff)
         \/ params.filter_type \notin {"lowpass", "highpass", "bandpass"}
    [] type = "COMPRESSOR" -> CompressorDegenerate(params.threshold, params.ratio)

\* what the array a stage was given holds when the stage is over: delay and
\* flanger run output[i] += ... on output = np.copy(audio); the other loops
\* write to np.zeros_like(audio), and the rest build their result by
\* expressions
ArgumentAfter(self, audio, type, params) ==
  IF type \in {"DELAY", "FLANGER"} /\ ~ ReturnsArgument(type, params)
       /\ NpCopy("arg") = "arg"
  THEN IF type = "DELAY"
       THEN DelayLoop(audio, DelaySamples(self.sample_rate, params.delay_time),
                      params.feedback, 0,
                      [output |-> audio, delay_buffer |-> self.delay_buffer,
                       delay_index |-> self.delay_index]).output
       ELSE LET output == FlangerLoop(LfoOffsets(self.sample_rate, Len(audio), params.rate,
                                                 params.depth),
                                      params.feedback, 0, audio)
            IN  IF output.err = "none" THEN output.val ELSE audio
  ELSE audio

\* a dispatch that also matches the values of the members: the plain strings
\* 'delay' and 'distortion' run their stages
DispatchByValue(self, output, effect_config) ==
  IF effect_config.type \in EffectType
  THEN StageCall(self, output, effect_config.type, effect_config.params)
  ELSE IF effect_config.type = "delay"
  THEN apply_delay(self, output, effect_config.params.delay_time,
                   effect_config.params.feedback, Q(1, 2))
  ELSE IF effect_config.type = "distortion"
  THEN Pure(self, apply_distortion(output, effect_config.params.amount,
                                   effect_config.params.type_))
  ELSE Pure(self, Returns(output))

\* a strict dispatch: a type that matches no branch is an error
DispatchStrict(self, output, effect_config) ==
  IF effect_config.type \in EffectType
  THEN StageCall(self, output, effect_config.type, effect_config.params)
  ELSE Pure(self, Raises("ValueError"))

\* one pass of the loop of apply_multiple_effects: the if/elif chain on
\* effect_type; a type that matches no branch leaves output as it is
Dispatch(self, output, effect_config) ==
  IF effect_config.type \in EffectType
  THEN StageCall(self, output, effect_config.type, effect_config.params)
  ELSE Pure(self, Returns(output))

\* a chain that hands every stage the caller's buffer
ChainWorkingInput(audio, output) == audio

\* the buffer a stage of the chain is given: output, not the caller's audio
ChainWorking(audio, output) == output

(***************************************************************************)
(* The inputs the callers draw from.                                       *)
(***************************************************************************)
SampleRates == {1, 2}

Samples == {Zero, Q(1, 2), Q(-1, 1)}

Buffers == UNION {[1..n -> Samples] : n \in 0..MaxLen}

\* buffers one sample longer than the others, for the second-order filter
LongBuffers ==
  {[k \in 1..(MaxLen + 1) |-> IF k = 1 THEN One ELSE Zero],
   [k \in 1..(MaxLen + 1) |-> IF k = 2 THEN Q(-1, 1) ELSE IF k = 3 THEN One ELSE Q(1, 2)]}

\* the unit impulses [1, 0, 0, ...]
UnitImpulses == {[k \in 1..n |-> IF k = 1 THEN One ELSE Zero] : n \in 1..MaxLen}

\* the buffers of constant amplitude 0.9
SteadyBuffers == {[k \in 1..n |-> Q(9, 10)] : n \in 1..MaxLen}

NoiseValues == {One, Q(-1, 2)}

ReverbParams(sr) ==
  UNION {{[room_size |-> rs, damping |-> Q(1, 2), noise |-> nz] :
            nz \in [1..(IF RLe(rs, Zero) THEN 0 ELSE ReverbLength(sr, rs)) -> NoiseValues]} :
         rs \in {Q(-1, 1), Zero, Q(5, 1), Q(10, 1)}}

DelayParams ==
  [delay_time : {Q(-1, 1), Zero, Q(1, 2), One}, feedback : {Q(-1, 2), Zero, Q(1, 2)},
   mix : {Q(1, 2), One}]

ChorusParams == [rate : {Zero, Q(1, 6), Q(1, 2)}, depth : {Q(-1, 1), One, Q(2, 1)}, mix : {Q(1, 2)}]

FlangerParams == [rate : {Q(-1, 1), Zero, Q(1, 6)}, depth : {Zero, One, Q(2, 1)}, feedback : {Q(1, 2)}]

DistortionParams ==
  [amount : {Q(-1, 2), Zero, Q(3, 10), One}, type_ : {"soft", "hard", "overdrive"}]

FilterParams ==
  [filter_type : {"lowpass", "highpass", "bandpass", "notch"},
   cutoff : {Q(-1, 1), Zero, Q(1, 4), One}, resonance : {One}]

CompressorParams ==
  [threshold : {Q(-1, 1), Zero, Q(1, 4), Q(1, 2)}, ratio : {Q(1, 2), One, Q(4, 1)},
   attack : {Zero, Q(1, 2), One}, release : {Q(1, 2), One}]

TremoloParams == [rate : {Q(-1, 1), Zero, Q(1, 2)}, depth : {Q(-1, 1), Zero, One}]

\* the delay and compressor calls that build up the history of a processor
DelayHistoryParams ==
  [delay_time : {Q(1, 2), One}, feedback : {Zero, Q(1, 2)}, mix : {Q(1, 2)}]

CompressorHistoryParams ==
  {[threshold |-> Q(1, 4), ratio |-> Q(4, 1), attack |-> One, release |-> One]}

\* the entries a chain is built from: stages, and types that are no EffectType
\* (the plain string "reverb" for the enum member)
ChainEntries(sr) ==
  {[type |-> "REVERB", params |-> [room_size |-> Q(10, 1), damping |-> Q(1, 2),
                                   noise |-> [k \in 1..ReverbLength(sr, Q(10, 1)) |-> One]]],
   [type |-> "DELAY", params |-> [delay_time |-> Q(1, 2), feedback |-> Q(1, 2), mix |-> Q(1, 2)]],
   [type |-> "FLANGER", params |-> [rate |-> Q(1, 6), depth |-> Q(2, 1), feedback |-> Q(1, 2)]],
   [type |-> "FILTER", params |-> [filter_type |-> "lowpass", cutoff |-> Q(1, 4), resonance |-> One]],
   [type |-> "reverb", params |-> [room_size |-> Q(10, 1)]]}

Chains(sr) == UNION {[1..n -> ChainEntries(sr)] : n \in 0..MaxChain}

\* what earlier delay calls have written into the line of a processor in use
Histories == {<<>>, <<Q(1, 2)>>, <<Q(1, 2), Q(-1, 1), Q(1, 2)>>}

\* the buffers and parameters of the concurrent streams
StreamBuffers == UNION {[1..n -> {Q(1, 2), Q(-1, 1)}] : n \in 1..(MaxLen - 1)}

StreamParams == [delay_time : {Q(1, 2), One}, feedback : {Zero, Q(1, 2)}, mix : {Q(1, 2)}]

NoCall == [kind |-> "none"]

NoChain == [kind |-> "none"]

Instances == {1, 2}

Streams == {1, 2}

\* the delay line of an instance just constructed
FreshLine(sr) == [delay_buffer |-> Zeros(Capacity(sr)), delay_index |-> 0]

IdleStream == [state |-> "idle"]

\* AudioEffects(sample_rate), twice, with no call under way
StreamsInit ==
  /\ instances = [p \in Instances |-> FreshLine(sample_rate)]
  /\ streams = [s \in Streams |-> IdleStream]

NoGridCall == [op |-> "none"]

\* a dict: a function on the set of its keys
EmptyDict == [k \in {} |-> <<>>]
DictDel(d, key) == [k \in DOMAIN d \ {key} |-> d[k]]
DictSet(d, key, value) == [k \in DOMAIN d \cup {key} |-> IF k = key THEN value ELSE d[k]]

NoPmCall == [op |-> "none"]

\* ProjectManager() on an empty projects directory; None is <<>>, a name n
\* is <<n>>
PmInit ==
  /\ projects = EmptyDict
  /\ current_project = <<>>
  /\ disk = EmptyDict
  /\ pm_call = NoPmCall

\* the grid's dimensions and note tables
grid_width == 16
grid_height == 12
note_names ==
  << <<"C">>, <<"C", "#">>, <<"D">>, <<"D", "#">>, <<"E">>, <<"F">>, <<"F", "#">>,
     <<"G">>, <<"G", "#">>, <<"A">>, <<"A", "#">>, <<"B">> >>
octaves == <<4, 5, 6, 7, 8>>


\* NoteGrid()
GridInit ==
  /\ notes = EmptyDict
  /\ tempo = 120
  /\ is_playing = FALSE
  /\ playhead = 0
  /\ tasks = <<>>
  /\ grid_call = NoGridCall

\* AudioEffects(sample_rate)
Init ==
  /\ sample_rate \in SampleRates
  /\ delay_buffer = Zeros(Capacity(sample_rate))
  /\ delay_index = 0
  /\ pc = "idle"
  /\ chain = NoChain
  /\ last = NoCall
  /\ prev_result = NoCall
  /\ StreamsInit
  /\ GridInit
  /\ PmInit

\* a processor whose delay stage has been given the samples of a history
InitUsed ==
  /\ sample_rate \in SampleRates
  /\ \E written \in Histories :
       LET st == DelayLoop(written, Len(written), One, 0,
                           [output |-> written,
                            delay_buffer |-> Zeros(Capacity(sample_rate)),
                            delay_index |-> 0])
       IN  delay_buffer = st.delay_buffer /\ delay_index = st.delay_index
  /\ pc = "idle"
  /\ chain = NoChain
  /\ last = NoCall
  /\ prev_result = NoCall
  /\ StreamsInit
  /\ GridInit
  /\ PmInit

\* a call self.apply_<type>(audio, **params) run to completion, r being what
\* it returns or raises and the delay line it leaves
Invoke(type, params, audio, result, again) ==
  \E r \in {result} :
  /\ delay_buffer' = r.delay_buffer
  /\ delay_index' = r.delay_index
  /\ last' = [kind |-> "stage", type |-> type, params |-> params, audio |-> audio,
              pre_buffer |-> delay_buffer, pre_index |-> delay_index, res |-> r.res,
              audio_after |-> ArgumentAfter(Self, audio, type, params)]
  /\ prev_result' = IF again THEN last.res ELSE NoCall
  /\ pc' = "returned"
  /\ UNCHANGED <<sample_rate, chain, stream_vars, grid_vars, pm_vars>>

ApplyReverb ==
  /\ pc = "idle"
  /\ \E audio \in Buffers, p \in ReverbParams(sample_rate) :
       Invoke("REVERB", p, audio,
              Pure(Self, apply_reverb(sample_rate, audio, p.room_size, p.damping, p.noise)),
              FALSE)

ApplyDelay ==
  /\ pc = "idle"
  /\ \E audio \in Buffers, p \in DelayParams :
       Invoke("DELAY", p, audio,
              apply_delay(Self, audio, p.delay_time, p.feedback, p.mix),
              FALSE)

ApplyChorus ==
  /\ pc = "idle"
  /\ \E audio \in Buffers, p \in ChorusParams :
       Invoke("CHORUS", p, audio,
              Pure(Self, apply_chorus(sample_rate, audio, p.rate, p.depth, p.mix)),
              FALSE)

ApplyFlanger ==
  /\ pc = "idle"
  /\ \E audio \in Buffers, p \in FlangerParams :
       Invoke("FLANGER", p, audio,
              Pure(Self, apply_flanger(sample_rate, audio, p.rate, p.depth, p.feedback)),
              FALSE)

ApplyDistortion ==
  /\ pc = "idle"
  /\ \E audio \in Buffers, p \in DistortionParams :
       Invoke("DISTORTION", p, audio,
              Pure(Self, apply_distortion(audio, p.amount, p.type_)),
              FALSE)

ApplyFilter ==
  /\ pc = "idle"
  /\ \E audio \in Buffers \cup UnitImpulses \cup LongBuffers, p \in FilterParams :
       Invoke("FILTER", p, audio,
              Pure(Self, apply_filter(sample_rate, audio, p.filter_type, p.cutoff, p.resonance)),
              FALSE)

ApplyCompressor ==
  /\ pc = "idle"
  /\ \E audio \in Buffers \cup SteadyBuffers, p \in CompressorParams :
       Invoke("COMPRESSOR", p, audio,
              Pure(Self, apply_compressor(sample_rate, audio, p.threshold, p.ratio,
                                           p.attack, p.release)),
              FALSE)

ApplyTremolo ==
  /\ pc = "idle"
  /\ \E audio \in Buffers, p \in TremoloParams :
       Invoke("TREMOLO", p, audio,
              Pure(Self, apply_tremolo(sample_rate, audio, p.rate, p.depth)),
              FALSE)

DelayCall ==
  /\ pc = "idle"
  /\ \E audio \in Buffers, p \in DelayHistoryParams :
       Invoke("DELAY", p, audio,
              apply_delay(Self, audio, p.delay_time, p.feedback, p.mix),
              FALSE)

CompressorCall ==
  /\ pc = "idle"
  /\ \E audio \in Buffers, p \in CompressorHistoryParams :
       Invoke("COMPRESSOR", p, audio,
              Pure(Self, apply_compressor(sample_rate, audio, p.threshold, p.ratio,
                                           p.attack, p.release)),
              FALSE)

\* the caller makes the call it has just made once more, with the same buffer
\* and the same parameters
CallAgain ==
  /\ pc = "returned" /\ last.kind = "stage" /\ prev_result = NoCall
  /\ Invoke(last.type, last.params, last.audio,
            StageCall(Self, last.audio, last.type, last.params), TRUE)

\* the caller is done with the outcome of the last call
Discard ==
  /\ pc = "returned"
  /\ pc' = "idle"
  /\ last' = NoCall
  /\ prev_result' = NoCall
  /\ UNCHANGED <<sample_rate, delay_buffer, delay_index, chain, stream_vars, grid_vars, pm_vars>>

\* apply_multiple_effects(audio, effects): output = np.copy(audio)
ChainStart ==
  /\ pc = "idle"
  /\ \E audio \in Buffers, effects \in Chains(sample_rate) :
       chain' = [kind |-> "chain", audio |-> audio, effects |-> effects, output |-> audio,
                 i |-> 1, pre_buffer |-> delay_buffer, pre_index |-> delay_index,
                 ref |-> NpCopy("audio"), audio_after |-> audio]
  /\ pc' = "chain"
  /\ UNCHANGED <<sample_rate, delay_buffer, delay_index, last, prev_result, stream_vars, grid_vars, pm_vars>>

ChainRecord(res) ==
  [kind |-> "chain", effects |-> chain.effects, audio |-> chain.audio,
   pre_buffer |-> chain.pre_buffer, pre_index |-> chain.pre_index, res |-> res,
   audio_after |-> chain.audio_after]

\* the array output names after the entry: the one the stage hands back
ChainRef(ref, effect_config) ==
  IF effect_config.type \in EffectType
       /\ ~ ReturnsArgument(effect_config.type, effect_config.params)
  THEN "new" ELSE ref

\* what the caller's array holds after the entry: a stage can write to it
\* only if output names it
ChainAudioAfter(self, c) ==
  IF c.ref = "audio" /\ c.effects[c.i].type \in EffectType
  THEN ArgumentAfter(self, c.output, c.effects[c.i].type, c.effects[c.i].params)
  ELSE c.audio_after

\* one entry of the loop; an exception of the stage leaves the whole call
ChainStep ==
  /\ pc = "chain" /\ chain.i <= Len(chain.effects)
  /\ \E r \in {Dispatch(Self, ChainWorking(chain.audio, chain.output),
                         chain.effects[chain.i])} :
         /\ delay_buffer' = r.delay_buffer
         /\ delay_index' = r.delay_index
         /\ IF r.res.err = "none"
            THEN /\ chain' = [chain EXCEPT !.output = r.res.val, !.i = chain.i + 1,
                                            !.ref = ChainRef(chain.ref, chain.effects[chain.i]),
                                            !.audio_after = ChainAudioAfter(Self, chain)]
                 /\ UNCHANGED <<pc, last>>
            ELSE /\ chain' = NoChain
                 /\ pc' = "returned"
                 /\ last' = ChainRecord(r.res)
  /\ UNCHANGED <<sample_rate, prev_result, stream_vars, grid_vars, pm_vars>>

\* return output
ChainReturn ==
  /\ pc = "chain" /\ chain.i > Len(chain.effects)
  /\ last' = ChainRecord(Returns(chain.output))
  /\ chain' = NoChain
  /\ pc' = "returned"
  /\ UNCHANGED <<sample_rate, delay_buffer, delay_index, prev_result, stream_vars, grid_vars, pm_vars>>

(***************************************************************************)
(* Streams: apply_delay calls that run concurrently, switching between     *)
(* passes of the loop over the samples.                                    *)
(***************************************************************************)
\* an instance whose delay line is shared by all instances
LineShared(p) == 1

\* self.delay_buffer, self.delay_index: the line of instance p is its own
LineOf(p) == p

\* stream s enters apply_delay on an instance: the guard, delay_samples and
\* output = np.copy(audio); stream 1 is the one on instance 1
StreamStart(s) ==
  /\ streams[s].state = "idle"
  /\ \E p \in (IF s = 1 THEN {1} ELSE Instances), audio \in StreamBuffers,
        params \in StreamParams :
       LET degenerate == DelayDegenerate(params.delay_time, params.feedback)
       IN  streams' = [streams EXCEPT ![s] =
             [state |-> IF degenerate THEN "done" ELSE "running",
              on |-> p, audio |-> audio, params |-> params,
              delay_samples |-> DelaySamples(sample_rate, params.delay_time),
              i |-> 0, output |-> audio,
              res |-> IF degenerate THEN Returns(audio) ELSE Raises("running"),
              rank |-> Cardinality({t \in Streams : streams[t].state # "idle"}),
              alone |-> \A t \in Streams : streams[t].state # "running"]]
  /\ UNCHANGED <<fx_vars, instances, grid_vars, pm_vars>>

\* one pass of the loop of stream s
StreamStep(s) ==
  /\ streams[s].state = "running" /\ streams[s].i < Len(streams[s].audio)
  /\ LET c == streams[s]
         line == LineOf(c.on)
     IN  \E st \in {DelayStep(c.audio, c.delay_samples, c.params.feedback, c.i,
                               [output |-> c.output,
                                delay_buffer |-> instances[line].delay_buffer,
                                delay_index |-> instances[line].delay_index])} :
           /\ instances' = [instances EXCEPT ![line] =
                              [delay_buffer |-> st.delay_buffer,
                               delay_index |-> st.delay_index]]
           /\ streams' = [streams EXCEPT ![s].output = st.output, ![s].i = c.i + 1]
  /\ UNCHANGED <<fx_vars, grid_vars, pm_vars>>

\* return (1 - mix) * audio + mix * output
StreamReturn(s) ==
  /\ streams[s].state = "running" /\ streams[s].i >= Len(streams[s].audio)
  /\ streams' = [streams EXCEPT
                   ![s].state = "done",
                   ![s].res = DelayMix(streams[s].audio, streams[s].output,
                                       streams[s].params.mix)]
  /\ UNCHANGED <<fx_vars, instances, grid_vars, pm_vars>>

\* a processor from its construction on, under a caller of the delay and
\* compressor stages
Next ==
  \/ DelayCall
  \/ CompressorCall
  \/ CallAgain
  \/ Discard

Spec == Init /\ [][Next]_vars

\* one call of a stage on a processor in use
NextStage ==
  \/ ApplyReverb
  \/ ApplyDelay
  \/ ApplyChorus
  \/ ApplyFlanger
  \/ ApplyDistortion
  \/ ApplyFilter
  \/ ApplyCompressor
  \/ ApplyTremolo

SpecStage == InitUsed /\ [][NextStage]_vars

\* one call of apply_multiple_effects on a processor in use
NextChain ==
  \/ ChainStart
  \/ ChainStep
  \/ ChainReturn

SpecChain == InitUsed /\ [][NextChain]_vars

\* one call of a stage or of apply_multiple_effects on a processor in use
NextFrame == NextStage \/ NextChain

SpecFrame == InitUsed /\ [][NextFrame]_vars

(***************************************************************************)
(* The effects command of the command line tool.                           *)
(***************************************************************************)
\* apply_multiple_effects as one call, from entry i on; an exception of a
\* stage ends the call
RECURSIVE ApplyMultipleEffects(_, _, _, _)
ApplyMultipleEffects(self, output, effects, i) ==
  IF i > Len(effects) THEN Pure(self, Returns(output))
  ELSE Bind(Dispatch(self, output, effects[i]), LAMBDA r :
         IF r.res.err # "none" THEN r
         ELSE ApplyMultipleEffects([self EXCEPT !.delay_buffer = r.delay_buffer,
                                                !.delay_index = r.delay_index],
                                   r.res.val, effects, i + 1))

\* the scale of 16-bit samples
Int16Max == 32767

\* np.frombuffer(..., dtype=np.int16).astype(np.float32) / 32767
FromInt16(frames) == [k \in 1..Len(frames) |-> Q(frames[k], Int16Max)]

\* astype(np.int16): the fraction is dropped, the value is kept to 16 bits
Wrap16(n) == ((n + 32768) % 65536) - 32768

\* (processed_audio * 32767).astype(np.int16)
ToInt16(audio) == [k \in 1..Len(audio) |-> Wrap16(PyInt(RMul(audio[k], FromInt(Int16Max))))]

\* an option of the command line: <<>> when it is not given, <<value>> when
\* it is; `if args.reverb:` is false for both None and 0.0
Given(option) == option # <<>> /\ option[1] # Zero

\* the list the effects command builds from its options
CliEffectsList(args) ==
  (IF Given(args.reverb)
   THEN << [type |-> "reverb",
            params |-> [room_size |-> args.reverb[1], damping |-> Q(1, 2)]] >>
   ELSE <<>>)
  \o (IF Given(args.delay)
      THEN << [type |-> "delay",
               params |-> [delay_time |-> args.delay[1], feedback |-> Q(3, 10)]] >>
      ELSE <<>>)
  \o (IF Given(args.distortion)
      THEN << [type |-> "distortion",
               params |-> [amount |-> args.distortion[1], type_ |-> "soft"]] >>
      ELSE <<>>)

\* the options and the WAV files of the command
CliArgs ==
  [reverb : {<<>>, <<Zero>>, <<Q(1, 2)>>},
   delay : {<<>>, <<Zero>>, <<Q(3, 10)>>},
   distortion : {<<>>, <<Zero>>, <<Q(1, 2)>>}]

Int16Samples == {-32768, -1, 0, 16384, 32767}

WavFiles == UNION {[1..n -> Int16Samples] : n \in 0..(MaxLen - 1)}

\* the effects command on a new Seq80x25CLI: without an option that counts it
\* prints "No effects specified"; otherwise apply_effects reads the input
\* file, runs the chain on the processor of the tool and writes the output
\* file; an exception is caught and printed
CliEffects ==
  /\ pc = "idle" /\ last = NoCall
  /\ \E args \in CliArgs, frames \in WavFiles, exists \in BOOLEAN :
       LET effects == CliEffectsList(args)
           audio == FromInt16(frames)
       IN  IF effects = <<>> \/ ~ exists
           THEN /\ last' = [kind |-> "cli", args |-> args, frames |-> frames,
                            effects |-> effects, called |-> FALSE]
                /\ UNCHANGED <<delay_buffer, delay_index>>
           ELSE \E r \in {ApplyMultipleEffects(Self, audio, effects, 1)} :
                  /\ delay_buffer' = r.delay_buffer
                  /\ delay_index' = r.delay_index
                  /\ last' = [kind |-> "cli", args |-> args, frames |-> frames,
                              effects |-> effects, called |-> TRUE,
                              audio |-> audio, res |-> r.res,
                              written |-> IF r.res.err = "none"
                                          THEN <<ToInt16(r.res.val)>> ELSE <<>>]
  /\ pc' = "returned"
  /\ UNCHANGED <<sample_rate, chain, prev_result, stream_vars, grid_vars, pm_vars>>

NextCli == CliEffects

SpecCli == Init /\ [][NextCli]_vars

(***************************************************************************)
(* NoteGrid.  A string is the sequence of its characters.                  *)
(***************************************************************************)
DigitChar == <<"0", "1", "2", "3", "4", "5", "6", "7", "8", "9">>

RECURSIVE Str(_)
\* str(n) of an integer, as an f-string formats it
Str(n) ==
  IF n < 0 THEN <<"-">> \o Str(-n)
  ELSE IF n < 10 THEN <<DigitChar[n + 1]>>
  ELSE Str(n \div 10) \o <<DigitChar[(n % 10) + 1]>>

Dashes == <<"-", "-", "-">>

\* get_note_name(pos); pos is a tuple, () included; % and // floor as \div
\* and % do for a positive divisor
get_note_name(pos) ==
  IF pos = <<>> \/ pos[1] >= grid_height \/ pos[2] >= grid_width
  THEN Dashes
  ELSE LET note_idx == (grid_height - 1 - pos[1]) % Len(note_names)
           octave_idx == (grid_height - 1 - pos[1]) \div Len(note_names)
       IN  IF octave_idx < Len(octaves)
           THEN note_names[note_idx + 1] \o Str(octaves[octave_idx + 1])
           ELSE Dashes

\* the cells whose buttons are pressed
Cells == {<<0, 0>>, <<5, 1>>, <<11, 0>>}

\* the positions get_note_name is called with
Rows == {-49, -13, -1, 0, 5, 11, 12, 20}
Cols == {-1, 0, 15, 16, 20}
Positions == {<<>>} \cup (Rows \X Cols)

\* a press of the button of cell (row, col)
ToggleNote ==
  \E cell \in Cells :
    /\ notes' = IF cell \in DOMAIN notes
                THEN DictDel(notes, cell)
                ELSE IF get_note_name(cell) # Dashes
                     THEN DictSet(notes, cell, get_note_name(cell))
                     ELSE notes
    /\ grid_call' = [op |-> "toggle_note", pos |-> cell]
    /\ UNCHANGED <<fx_vars, stream_vars, pm_vars, tempo, is_playing, playhead, tasks>>

ClearGrid ==
  /\ notes' = EmptyDict
  /\ grid_call' = [op |-> "clear_grid"]
  /\ UNCHANGED <<fx_vars, stream_vars, pm_vars, tempo, is_playing, playhead, tasks>>

\* start_playback; running: an event loop is running in the calling thread,
\* without one asyncio.create_task raises RuntimeError
StartPlayback ==
  \E running \in BOOLEAN :
    /\ Len(tasks) < MaxTasks
    /\ IF DOMAIN notes = {}
       THEN /\ grid_call' = [op |-> "start_playback", raised |-> FALSE]
            /\ UNCHANGED <<is_playing, playhead, tasks>>
       ELSE /\ is_playing' = TRUE
            /\ playhead' = 0
            /\ tasks' = IF running THEN Append(tasks, "created") ELSE tasks
            /\ grid_call' = [op |-> "start_playback", raised |-> ~ running]
    /\ UNCHANGED <<fx_vars, stream_vars, pm_vars, notes, tempo>>

StopPlayback ==
  /\ is_playing' = FALSE
  /\ grid_call' = [op |-> "stop_playback"]
  /\ UNCHANGED <<fx_vars, stream_vars, pm_vars, notes, tempo, playhead, tasks>>

\* the tasks without the t-th
Without(ts, t) == SubSeq(ts, 1, t - 1) \o SubSeq(ts, t + 1, Len(ts))

\* one pass of the loop of a play_sequence task, from its start or from its
\* sleep to the next sleep or to its end
PlaySequenceStep ==
  \E t \in 1..Len(tasks) :
    IF is_playing
    THEN /\ playhead' = (playhead + 1) % grid_width
         /\ tasks' = [tasks EXCEPT ![t] = "sleeping"]
         /\ grid_call' = [op |-> "play_sequence",
                          played |-> {notes[k] : k \in {c \in DOMAIN notes : c[2] = playhead}}]
         /\ UNCHANGED <<fx_vars, stream_vars, pm_vars, notes, tempo, is_playing>>
    ELSE /\ tasks' = Without(tasks, t)
         /\ grid_call' = [op |-> "play_sequence", played |-> {}]
         /\ UNCHANGED <<fx_vars, stream_vars, pm_vars, notes, tempo, is_playing, playhead>>

\* a call of get_note_name
GetNoteName ==
  \E pos \in Positions :
    /\ grid_call' = [op |-> "get_note_name", pos |-> pos, res |-> get_note_name(pos)]
    /\ UNCHANGED <<fx_vars, stream_vars, pm_vars, notes, tempo, is_playing, playhead, tasks>>

\* a press of the tempo-up or of the tempo-down button
TempoUp ==
  /\ tempo' = IF tempo + 10 < 200 THEN tempo + 10 ELSE 200
  /\ grid_call' = [op |-> "tempo-up", was |-> tempo]
  /\ UNCHANGED <<fx_vars, stream_vars, pm_vars, notes, is_playing, playhead, tasks>>

TempoDown ==
  /\ tempo' = IF tempo - 10 > 60 THEN tempo - 10 ELSE 60
  /\ grid_call' = [op |-> "tempo-down", was |-> tempo]
  /\ UNCHANGED <<fx_vars, stream_vars, pm_vars, notes, is_playing, playhead, tasks>>

\* the values the attribute is assigned
TempoValues == {50, 60, 120, 200, 210}

\* grid.tempo = value: tempo is a reactive attribute with no validate_tempo
\* method, the value is stored as given
SetTempo ==
  \E value \in TempoValues :
    /\ tempo' = value
    /\ grid_call' = [op |-> "set_tempo", value |-> value]
    /\ UNCHANGED <<fx_vars, stream_vars, pm_vars, notes, is_playing, playhead, tasks>>

\* the tempo controls, on a grid whose notes are edited
NextTempo ==
  \/ TempoUp
  \/ TempoDown
  \/ SetTempo
  \/ ToggleNote
  \/ ClearGrid

SpecTempo == Init /\ [][NextTempo]_vars

NextGrid ==
  \/ ToggleNote
  \/ ClearGrid
  \/ StartPlayback
  \/ StopPlayback
  \/ PlaySequenceStep
  \/ GetNoteName

SpecGrid == Init /\ [][NextGrid]_vars

(***************************************************************************)
(* ProjectManager.  A name is the sequence of its characters.              *)
(***************************************************************************)
\* the characters of the names for which c.isalnum() holds
Alnum == {"a", "b"}

RECURSIVE RStrip(_)
\* s.rstrip()
RStrip(s) ==
  IF s # <<>> /\ s[Len(s)] = " " THEN RStrip(SubSeq(s, 1, Len(s) - 1)) ELSE s

\* the characters of name that c.isalnum() or c in (' ', '-', '_') keeps
KeptChars(name) == SelectSeq(name, LAMBDA c : c \in Alnum \cup {" ", "-", "_"})

\* "".join(...).rstrip().replace(' ', '_')
SafeName(name) ==
  LET stripped == RStrip(KeptChars(name))
  IN  [k \in 1..Len(stripped) |-> IF stripped[k] = " " THEN "_" ELSE stripped[k]]

\* a project that does not close the project it deletes
KeepCurrent(current, name) == current

\* if self.current_project == name: self.close_project()
CloseIfCurrent(current, name) == IF current = <<name>> THEN <<>> ELSE current

\* the names and the sequence names the callers pass
ProjectNames ==
  {<<"a">>, <<"a", " ">>, <<"a", " ", "b">>, <<"a", "_", "b">>, <<"*">>}

SequenceNames == {"s", "t"}

\* the record of a call: what it was, what it returned, what it found
PmCall(op, arg, res) ==
  [op |-> op, arg |-> arg, res |-> res,
   pre_projects |-> projects, pre_current |-> current_project]

\* a call that changes nothing
PmReturn(op, arg, res) ==
  /\ pm_call' = PmCall(op, arg, res)
  /\ UNCHANGED <<projects, current_project, disk>>

\* project_data as it is created
NewProject(name) == [name |-> name, sequences |-> <<>>]

\* create_project(name); ok: the directories and project.json can be written
CreateProject ==
  /\ \E name \in ProjectNames, ok \in BOOLEAN :
       LET safe_name == SafeName(name)
       IN  IF safe_name = <<>> \/ safe_name \in DOMAIN disk \/ ~ ok
           THEN PmReturn("create_project", name, FALSE)
           ELSE /\ disk' = DictSet(disk, safe_name, [files |-> {}, json |-> NewProject(name)])
                /\ projects' = DictSet(projects, safe_name, NewProject(name))
                /\ pm_call' = PmCall("create_project", name, TRUE)
                /\ UNCHANGED current_project
  /\ UNCHANGED <<fx_vars, stream_vars, grid_vars>>

OpenProject ==
  /\ \E name \in ProjectNames :
       IF name \notin DOMAIN projects
       THEN PmReturn("open_project", name, FALSE)
       ELSE /\ current_project' = <<name>>
            /\ pm_call' = PmCall("open_project", name, TRUE)
            /\ UNCHANGED <<projects, disk>>
  /\ UNCHANGED <<fx_vars, stream_vars, grid_vars>>

CloseProject ==
  /\ current_project' = <<>>
  /\ pm_call' = PmCall("close_project", <<>>, <<>>)
  /\ UNCHANGED <<projects, disk>>
  /\ UNCHANGED <<fx_vars, stream_vars, grid_vars>>

\* the list of a project with a name appended if it is not in it
WithSequence(sequences, sequence_name) ==
  IF \E k \in 1..Len(sequences) : sequences[k] = sequence_name
  THEN sequences ELSE Append(sequences, sequence_name)

\* list.remove(sequence_name)
WithoutSequence(sequences, sequence_name) ==
  SelectSeq(sequences, LAMBDA n : n # sequence_name)

\* save_sequence(sequence_name, data); ok: the files can be written; an
\* exception is caught and False returned
SaveSequence ==
  /\ \E sequence_name \in SequenceNames, ok \in BOOLEAN :
       IF current_project = <<>>
       THEN PmReturn("save_sequence", sequence_name, FALSE)
       ELSE LET cur == current_project[1]
            IN  IF ~ ok \/ cur \notin DOMAIN disk \/ cur \notin DOMAIN projects
                THEN PmReturn("save_sequence", sequence_name, FALSE)
                ELSE LET data == [projects[cur] EXCEPT
                                    !.sequences = WithSequence(@, sequence_name)]
                     IN  /\ projects' = [projects EXCEPT ![cur] = data]
                         /\ disk' = [disk EXCEPT ![cur] =
                                       [files |-> @.files \cup {sequence_name}, json |-> data]]
                         /\ pm_call' = PmCall("save_sequence", sequence_name, TRUE)
                         /\ UNCHANGED current_project
  /\ UNCHANGED <<fx_vars, stream_vars, grid_vars>>

\* load_sequence(sequence_name): None is <<>>, the data of a file is <<name>>
LoadSequence ==
  /\ \E sequence_name \in SequenceNames :
       PmReturn("load_sequence", sequence_name,
                IF current_project = <<>> THEN <<>>
                ELSE IF current_project[1] \in DOMAIN disk
                        /\ sequence_name \in disk[current_project[1]].files
                THEN <<sequence_name>> ELSE <<>>)
  /\ UNCHANGED <<fx_vars, stream_vars, grid_vars>>

\* list_sequences(); a current project that is no key is a KeyError
ListSequences ==
  /\ PmReturn("list_sequences", <<>>,
              IF current_project = <<>> THEN <<>>
              ELSE IF current_project[1] \in DOMAIN projects
              THEN projects[current_project[1]].sequences
              ELSE <<"KeyError">>)
  /\ UNCHANGED <<fx_vars, stream_vars, grid_vars>>

\* delete_sequence(sequence_name)
DeleteSequence ==
  /\ \E sequence_name \in SequenceNames, ok \in BOOLEAN :
       IF current_project = <<>>
       THEN PmReturn("delete_sequence", sequence_name, FALSE)
       ELSE LET cur == current_project[1]
            IN  IF ~ ok \/ cur \notin DOMAIN disk \/ cur \notin DOMAIN projects
                     \/ sequence_name \notin disk[cur].files
                THEN PmReturn("delete_sequence", sequence_name, FALSE)
                ELSE LET data == [projects[cur] EXCEPT
                                    !.sequences = WithoutSequence(@, sequence_name)]
                     IN  /\ projects' = [projects EXCEPT ![cur] = data]
                         /\ disk' = [disk EXCEPT ![cur] =
                                       [files |-> @.files \ {sequence_name}, json |-> data]]
                         /\ pm_call' = PmCall("delete_sequence", sequence_name, TRUE)
                         /\ UNCHANGED current_project
  /\ UNCHANGED <<fx_vars, stream_vars, grid_vars>>

\* delete_project(name); ok: shutil.rmtree succeeds; when it raises, the
\* project has been closed already and stays in the dict
DeleteProject ==
  /\ \E name \in ProjectNames, ok \in BOOLEAN :
       IF name \notin DOMAIN projects
       THEN PmReturn("delete_project", name, FALSE)
       ELSE /\ current_project' = CloseIfCurrent(current_project, name)
            /\ IF ok
               THEN /\ disk' = DictDel(disk, name)
                    /\ projects' = DictDel(projects, name)
               ELSE UNCHANGED <<disk, projects>>
            /\ pm_call' = PmCall("delete_project", name, ok)
  /\ UNCHANGED <<fx_vars, stream_vars, grid_vars>>

\* a new ProjectManager on the same directory: _load_projects reads the
\* project.json of every directory
NewManager ==
  /\ current_project' = <<>>
  /\ projects' = [d \in DOMAIN disk |-> disk[d].json]
  /\ pm_call' = PmCall("__init__", <<>>, <<>>)
  /\ UNCHANGED disk
  /\ UNCHANGED <<fx_vars, stream_vars, grid_vars>>

NextProjects ==
  \/ CreateProject
  \/ OpenProject
  \/ CloseProject
  \/ SaveSequence
  \/ LoadSequence
  \/ ListSequences
  \/ DeleteSequence
  \/ DeleteProject
  \/ NewManager

SpecProjects == Init /\ [][NextProjects]_vars

\* two streams of apply_delay calls on one or two instances
NextStreams ==
  \E s \in Streams :
    \/ StreamStart(s)
    \/ StreamStep(s)
    \/ StreamReturn(s)

SpecStreams == Init /\ [][NextStreams]_vars

(***************************************************************************)
(* Properties of the stages.                                               *)
(***************************************************************************)
StageReturned == pc = "returned" /\ last.kind = "stage"

\* the parameter values the specification calls degenerate, per stage
SpecDegenerate(type, p) ==
  \/ type = "REVERB" /\ RLe(p.room_size, Zero)
  \/ type = "DELAY" /\ (RLe(p.delay_time, Zero) \/ RLe(p.feedback, Zero))
  \/ type \in {"CHORUS", "FLANGER", "TREMOLO"} /\ (RLe(p.rate, Zero) \/ RLe(p.depth, Zero))
  \/ type = "DISTORTION" /\ RLe(p.amount, Zero)
  \/ type = "FILTER" /\ RLe(p.cutoff, Zero)
  \/ type = "COMPRESSOR" /\ (RLe(p.threshold, Zero) \/ RLe(p.ratio, One))

\* C1: a stage called with degenerate parameters (room_size <= 0; delay_time
\* <= 0 or feedback <= 0; rate <= 0 or depth <= 0; amount <= 0; cutoff <= 0;
\* threshold <= 0 or ratio <= 1) raises nothing and returns a buffer equal to
\* the one it was given, for every buffer, the empty one included.
IdentityOnDegenerate ==
  (StageReturned /\ SpecDegenerate(last.type, last.params))
    => last.res = Returns(last.audio)

\* a filter called with cutoff = 0 on a buffer of non-zero samples has
\* returned that buffer
IdentityOnDegenerateReached ==
  /\ StageReturned
  /\ last.type = "FILTER" /\ last.params.cutoff = Zero
  /\ last.params.filter_type = "lowpass"
  /\ Len(last.audio) >= 2 /\ \A k \in 1..Len(last.audio) : last.audio[k] # Zero
  /\ last.res = Returns(last.audio)

\* C2: every stage called on a non-empty buffer of length N returns a buffer
\* of length N, whatever its parameters; in particular apply_reverb when the
\* impulse is longer than the buffer or has length 0.
LengthPreserved ==
  (StageReturned /\ Len(last.audio) > 0)
    => (last.res.err = "none" /\ Len(last.res.val) = Len(last.audio))

(***************************************************************************)
(* Properties of apply_multiple_effects.                                   *)
(***************************************************************************)
ChainReturned == pc = "returned" /\ last.kind = "chain"

\* the processor as the call recorded in last found it
SelfBefore ==
  [sample_rate |-> sample_rate, delay_buffer |-> last.pre_buffer,
   delay_index |-> last.pre_index]

\* the processor a call has left behind
After(self, r) ==
  [sample_rate |-> self.sample_rate, delay_buffer |-> r.delay_buffer,
   delay_index |-> r.delay_index]

Known(effects) == \A k \in 1..Len(effects) : effects[k].type \in EffectType

\* C3: apply_multiple_effects(B, [A, C]) is apply_C(apply_A(B)) run on a
\* processor in the same state: C is given the whole output of A, and the
\* delay line A leaves; what A raises is what the chain raises.
ChainComposition ==
  (ChainReturned /\ Len(last.effects) = 2 /\ Known(last.effects))
    => LET A == last.effects[1]
           C == last.effects[2]
           a == StageCall(SelfBefore, last.audio, A.type, A.params)
           c == StageCall(After(SelfBefore, a), a.res.val, C.type, C.params)
       IN  IF a.res.err # "none"
           THEN last.res = a.res
           ELSE /\ last.res = c.res
                /\ delay_buffer = c.delay_buffer
                /\ delay_index = c.delay_index

\* a chain of a delay and a lowpass filter has returned, both having changed
\* the buffer
ChainCompositionReached ==
  /\ ChainReturned /\ Len(last.effects) = 2
  /\ last.effects[1].type = "DELAY" /\ last.effects[2].type = "FILTER"
  /\ Len(last.audio) >= 2
  /\ last.res.err = "none"
  /\ last.res.val # last.audio
  /\ last.res.val # StageCall(SelfBefore, last.audio, "FILTER", last.effects[2].params).res.val
  /\ last.res.val # StageCall(SelfBefore, last.audio, "DELAY", last.effects[1].params).res.val

\* the entries whose type is an EffectType, in order
KnownEntries(effects) == SelectSeq(effects, LAMBDA e : e.type \in EffectType)

\* the stages of effects applied one after the other, from entry i on
RECURSIVE StagesInOrder(_, _, _, _)
StagesInOrder(self, buf, effects, i) ==
  IF i > Len(effects) THEN Pure(self, Returns(buf))
  ELSE Bind(StageCall(self, buf, effects[i].type, effects[i].params), LAMBDA r :
         IF r.res.err # "none" THEN r
         ELSE StagesInOrder(After(self, r), r.res.val, effects, i + 1))

\* C4: an entry whose type is no EffectType is skipped: the chain returns,
\* and leaves the delay line, as the chain without that entry does, so the
\* entry raises nothing, changes neither buffer nor delay line, and the
\* entries after it are applied in order; a chain with no known entry returns
\* its input.
UnknownSkipped ==
  ChainReturned
    => /\ LET r == StagesInOrder(SelfBefore, last.audio, KnownEntries(last.effects), 1)
           IN  /\ last.res = r.res
               /\ delay_buffer = r.delay_buffer
               /\ delay_index = r.delay_index
       /\ KnownEntries(last.effects) = <<>>
            => /\ last.res = Returns(last.audio)
               /\ delay_buffer = last.pre_buffer
               /\ delay_index = last.pre_index

\* a chain of an unknown entry followed by a delay has returned what the
\* delay alone returns
UnknownSkippedReached ==
  /\ ChainReturned /\ Len(last.effects) = 2
  /\ last.effects[1].type \notin EffectType /\ last.effects[2].type = "DELAY"
  /\ Len(last.audio) >= 2
  /\ last.res.err = "none" /\ last.res.val # last.audio
  /\ delay_index # last.pre_index

\* C9: apply_multiple_effects on the empty buffer with a chain of known
\* effects returns the buffer unchanged or fails with an error of its own;
\* no IndexError or ValueError of a stage comes out of it.
EmptyBufferSafe ==
  (ChainReturned /\ Len(last.audio) = 0 /\ Known(last.effects))
    => \/ last.res = Returns(last.audio)
       \/ last.res.err \notin {"none", "IndexError", "ValueError"}

(***************************************************************************)
(* Properties of the delay line.                                           *)
(***************************************************************************)
\* a non-degenerate apply_delay call has returned
DelayReturned ==
  /\ StageReturned /\ last.type = "DELAY"
  /\ ~ (RLe(last.params.delay_time, Zero) \/ RLe(last.params.feedback, Zero))

LastDelaySamples == DelaySamples(sample_rate, last.params.delay_time)

\* what the call recorded in last read from the delay line for sample i: the
\* tap of the line as the samples before i have left it
TapRead(i) ==
  DelayTap(DelayLoop(SubSeq(last.audio, 1, i), LastDelaySamples, last.params.feedback, 0,
                     [output |-> SubSeq(last.audio, 1, i), delay_buffer |-> last.pre_buffer,
                      delay_index |-> last.pre_index]))

\* C5: in apply_delay, the value read from the delay line for a sample
\* i >= delaySamples is the sample written delaySamples steps earlier,
\* input[i - delaySamples].
DelayReadsLagWrites ==
  DelayReturned
    => \A i \in 0..(Len(last.audio) - 1) :
         i >= LastDelaySamples => TapRead(i) = At(last.audio, i - LastDelaySamples)

\* the call recorded in last, made on a delay line of zeros
OnSilentLine ==
  apply_delay([sample_rate |-> sample_rate, delay_buffer |-> Zeros(Capacity(sample_rate)),
               delay_index |-> last.pre_index],
              last.audio, last.params.delay_time, last.params.feedback, last.params.mix)

Writers(audio, index, capacity, k) ==
  {j \in 0..(Len(audio) - 1) : (index + j) % capacity = k}

Greatest(S) == CHOOSE j \in S : \A h \in S : h <= j

\* C7: the cursor stays within the line, whose capacity stays 2 * sample_rate;
\* a non-degenerate apply_delay on N samples writes them to consecutive slots
\* from the cursor the call before has left, the samples before delaySamples
\* included, and leaves the cursor at (old cursor + N) mod capacity.
DelayCursorInvariant ==
  /\ Len(delay_buffer) = 2 * sample_rate
  /\ delay_index \in 0..(2 * sample_rate - 1)
  /\ DelayReturned
       => /\ delay_index = (last.pre_index + Len(last.audio)) % (2 * sample_rate)
          /\ \A k \in 0..(2 * sample_rate - 1) :
               LET w == Writers(last.audio, last.pre_index, 2 * sample_rate, k)
               IN  At(delay_buffer, k) = IF w = {} THEN At(last.pre_buffer, k)
                                         ELSE At(last.audio, Greatest(w))

\* a delay of one second has returned, called with the cursor off 0 on three
\* samples that wrap round the line
DelayCursorInvariantReached ==
  /\ DelayReturned /\ last.pre_index = 1 /\ Len(last.audio) = 3
  /\ LastDelaySamples >= 1
  /\ 2 * sample_rate = 2
  /\ delay_index = 0
  /\ delay_buffer = <<At(last.audio, 1), At(last.audio, 2)>>
  /\ delay_buffer # last.pre_buffer

(***************************************************************************)
(* Properties of the compressor.                                           *)
(***************************************************************************)
\* the call recorded in last repeats the call made just before it
Repeated == StageReturned /\ prev_result # NoCall

\* C8: the envelope starts at 0 in every apply_compressor call: the second of
\* two consecutive compressor calls with the same buffer and parameters
\* returns what the first returned, whatever calls came before.
EnvelopeCallLocal ==
  (Repeated /\ last.type = "COMPRESSOR") => last.res = prev_result

\* a compressor call that reduced its input has been made twice in a row, on
\* a processor whose delay line earlier calls have written
EnvelopeCallLocalReached ==
  /\ Repeated /\ last.type = "COMPRESSOR"
  /\ last.res.err = "none" /\ last.res.val # last.audio
  /\ last.res = prev_result
  /\ \E k \in 1..Len(delay_buffer) : delay_buffer[k] # Zero

\* the contrast C8 draws: the second of two consecutive delay calls with the
\* same buffer and parameters has returned another buffer than the first
DelayRepeatDiffers ==
  /\ Repeated /\ DelayReturned
  /\ last.res # prev_result

\* C10: attack_samples and release_samples are at least 1, so for attack >= 0
\* and release >= 0 no envelope update divides by zero and apply_compressor
\* returns finite samples only.
CompressorCountsClamped ==
  (/\ StageReturned /\ last.type = "COMPRESSOR"
   /\ ~ (RLe(last.params.threshold, Zero) \/ RLe(last.params.ratio, One))
   /\ RGe(last.params.attack, Zero) /\ RGe(last.params.release, Zero))
    => /\ AttackSamples(sample_rate, last.params.attack) >= 1
       /\ ReleaseSamples(sample_rate, last.params.release) >= 1
       /\ last.res.err = "none"
       /\ \A k \in 1..Len(last.res.val) : IsFinite(last.res.val[k])

\* a non-degenerate apply_compressor call has returned whose sample counts
\* are at least 1
CompressorReturned ==
  /\ StageReturned /\ last.type = "COMPRESSOR"
  /\ ~ (RLe(last.params.threshold, Zero) \/ RLe(last.params.ratio, One))
  /\ AttackSamples(sample_rate, last.params.attack) >= 1
  /\ ReleaseSamples(sample_rate, last.params.release) >= 1

\* the envelope of the call recorded in last after its update for sample i
EnvelopeAt(i) ==
  CompressorLoop(SubSeq(last.audio, 1, i + 1), last.params.threshold, last.params.ratio,
                 AttackSamples(sample_rate, last.params.attack),
                 ReleaseSamples(sample_rate, last.params.release),
                 0, EnvelopeInit, Zeros(i + 1)).envelope

HardDistortionBounded ==
  (/\ StageReturned /\ last.type = "DISTORTION" /\ last.params.type_ = "hard"
   /\ RGt(last.params.amount, Zero) /\ RLe(last.params.amount, One))
    => /\ last.res.err = "none" /\ Len(last.res.val) = Len(last.audio)
       /\ \A k \in 1..Len(last.audio) :
            /\ RLe(RAbs(last.res.val[k]), RSub(One, last.params.amount))
            /\ RLe(RAbs(last.audio[k]), RSub(One, last.params.amount))
                 => last.res.val[k] = last.audio[k]

\* hard distortion of amount 0.3 has returned a buffer with a sample cut down
\* to -0.7 and a sample below the threshold left as it was
HardDistortionBoundedReached ==
  /\ StageReturned /\ last.type = "DISTORTION" /\ last.params.type_ = "hard"
  /\ last.params.amount = Q(3, 10)
  /\ Len(last.audio) >= 2
  /\ \E k \in 1..Len(last.audio) :
       last.audio[k] = Q(-1, 1) /\ last.res.val[k] = Q(-7, 10)
  /\ \E k \in 1..Len(last.audio) :
       last.audio[k] = Q(1, 2) /\ last.res.val[k] = Q(1, 2)

\* a lowpass filter with normalized cutoff in (0, 1) has returned from a
\* unit impulse
LowpassImpulseReturned ==
  /\ StageReturned /\ last.type = "FILTER" /\ last.params.filter_type = "lowpass"
  /\ last.audio \in UnitImpulses
  /\ RGt(NormalizedCutoff(sample_rate, last.params.cutoff), Zero)
  /\ RLt(NormalizedCutoff(sample_rate, last.params.cutoff), One)

\* C13: a lowpass filter with b = 2 * cutoff / sample_rate in (0, 1) turns the
\* unit impulse into y[0] = b, y[i] = (1 - b) * y[i-1], which falls
\* monotonically and stays >= 0.
LowpassMonotone ==
  LowpassImpulseReturned
    => LET b == RDiv(RMul(Q(2, 1), last.params.cutoff), FromInt(sample_rate))
           y == last.res.val
       IN  /\ last.res.err = "none" /\ Len(y) = Len(last.audio)
           /\ At(y, 0) = b
           /\ \A i \in 1..(Len(y) - 1) :
                /\ At(y, i) = RMul(RSub(One, b), At(y, i - 1))
                /\ RGe(At(y, i - 1), At(y, i))
           /\ \A i \in 0..(Len(y) - 1) : RGe(At(y, i), Zero)

\* the impulse of three samples has come out of a lowpass of b = 1/4 as
\* 1/4, 3/16, 9/64
LowpassMonotoneReached ==
  /\ LowpassImpulseReturned
  /\ last.audio = <<One, Zero, Zero>>
  /\ last.res.val = <<Q(1, 4), Q(3, 16), Q(9, 64)>>

\* C14: a sample whose envelope exceeds the threshold is returned as
\* x * (threshold + (envelope - threshold) / ratio) / envelope; in a buffer
\* of constant value 0.9 under threshold 0.5 and ratio 4, every sample whose
\* envelope has reached 0.9 is returned as 0.6.
CompressorGainReduction ==
  CompressorReturned
    => /\ last.res.err = "none" /\ Len(last.res.val) = Len(last.audio)
       /\ \A i \in 0..(Len(last.audio) - 1) :
            LET envelope == EnvelopeAt(i)
                threshold == last.params.threshold
                ratio == last.params.ratio
            IN  /\ RGt(envelope, threshold)
                     => At(last.res.val, i)
                          = RDiv(RMul(At(last.audio, i),
                                      RAdd(threshold, RDiv(RSub(envelope, threshold), ratio))),
                                 envelope)
                /\ (/\ last.audio \in SteadyBuffers
                    /\ threshold = Q(1, 2) /\ ratio = Q(4, 1)
                    /\ envelope = Q(9, 10))
                     => At(last.res.val, i) = Q(6, 10)

\* a buffer of three samples 0.9 has come out of the compressor of threshold
\* 0.5 and ratio 4 with the envelope at 0.9: all three are 0.6
CompressorGainReductionReached ==
  /\ CompressorReturned
  /\ last.audio = <<Q(9, 10), Q(9, 10), Q(9, 10)>>
  /\ last.params.threshold = Q(1, 2) /\ last.params.ratio = Q(4, 1)
  /\ \A i \in 0..2 : EnvelopeAt(i) = Q(9, 10)
  /\ last.res.val = <<Q(6, 10), Q(6, 10), Q(6, 10)>>

(***************************************************************************)
(* Properties of concurrent streams.                                       *)
(***************************************************************************)
Started(s) == streams[s].state # "idle"

\* stream s runs the loop: its parameters are not degenerate
Looping(s) ==
  Started(s) /\ ~ DelayDegenerate(streams[s].params.delay_time, streams[s].params.feedback)

BothDoneOnOne ==
  /\ \A s \in Streams : streams[s].state = "done" /\ Looping(s)
  /\ streams[1].on = streams[2].on

\* the call of stream s made on a processor in state self, by itself
CallOf(s, self) ==
  apply_delay(self, streams[s].audio, streams[s].params.delay_time,
              streams[s].params.feedback, streams[s].params.mix)

FreshSelf ==
  [sample_rate |-> sample_rate, delay_buffer |-> Zeros(Capacity(sample_rate)),
   delay_index |-> 0]

\* the two calls have returned what they return, and left the line they
\* leave, when the call of stream first runs to its end before the other
SerialOutcome(first, second) ==
  LET a == CallOf(first, FreshSelf)
      b == CallOf(second, After(FreshSelf, a))
  IN  /\ streams[first].res = a.res
      /\ streams[second].res = b.res
      /\ instances[streams[first].on] =
           [delay_buffer |-> b.delay_buffer, delay_index |-> b.delay_index]

\* C15: two apply_delay calls on one instance, interleaved by passes of the
\* loop, can end as neither serial order of the two does (the state
\* SharedLineRace).  What holds of every interleaving: each pass advances the
\* cursor by one, and two calls that did not overlap end as their serial
\* order does.
SharedLineSerial ==
  BothDoneOnOne
    => /\ instances[streams[1].on].delay_index
            = (Len(streams[1].audio) + Len(streams[2].audio)) % (2 * sample_rate)
       /\ (streams[1].alone /\ streams[2].alone)
            => \E first \in Streams, second \in Streams :
                 /\ streams[first].rank = 0 /\ streams[second].rank = 1
                 /\ SerialOutcome(first, second)

\* both calls on one instance have returned, and the returned buffers and
\* the delay line are those of neither serial order
SharedLineRace ==
  /\ BothDoneOnOne
  /\ ~ SerialOutcome(1, 2)
  /\ ~ SerialOutcome(2, 1)
  /\ \A first \in Streams : \A second \in Streams \ {first} :
        LET a == CallOf(first, FreshSelf)
            b == CallOf(second, After(FreshSelf, a))
        IN  /\ instances[streams[1].on].delay_buffer # b.delay_buffer
            /\ streams[first].res # a.res \/ streams[second].res # b.res

\* the delay line that the first n passes of stream s leave on a fresh
\* instance when nothing else touches it
LineAlone(s, n) ==
  LET st == DelayLoop(SubSeq(streams[s].audio, 1, n), streams[s].delay_samples,
                      streams[s].params.feedback, 0,
                      [output |-> SubSeq(streams[s].audio, 1, n),
                       delay_buffer |-> Zeros(Capacity(sample_rate)), delay_index |-> 0])
  IN  [delay_buffer |-> st.delay_buffer, delay_index |-> st.delay_index]

\* the streams that run the loop on instance p
UsersOf(p) == {s \in Streams : Looping(s) /\ streams[s].on = p}

\* C16: with each call on an instance of its own, whatever the interleaving
\* of their passes, an instance holds at every moment the line its own call
\* alone has produced so far, a call returns what it returns alone, and an
\* instance without a call stays as constructed.
InstancesIsolated ==
  \A p \in Instances :
    /\ UsersOf(p) = {} => instances[p] = FreshLine(sample_rate)
    /\ \A s \in Streams :
         UsersOf(p) = {s}
           => /\ instances[p] = LineAlone(s, streams[s].i)
              /\ streams[s].state = "done" => streams[s].res = CallOf(s, FreshSelf).res

\* stream 2 has run a whole call on instance 2 while stream 1 was half way
\* through its call on instance 1
InstancesIsolatedReached ==
  /\ Looping(1) /\ Looping(2)
  /\ streams[1].on = 1 /\ streams[2].on = 2
  /\ streams[1].rank = 0 /\ streams[1].state = "running" /\ streams[1].i = 1
  /\ Len(streams[1].audio) = 2
  /\ streams[2].state = "done" /\ Len(streams[2].audio) = 2
  /\ instances[1] = LineAlone(1, 1)
  /\ instances[2] = LineAlone(2, 2)
  /\ instances[1] # instances[2]

(***************************************************************************)
(* What a call leaves alone.                                               *)
(***************************************************************************)
\* the entry the chain is about to run is a delay that runs its loop
AtDelayEntry ==
  /\ chain.effects[chain.i].type = "DELAY"
  /\ ~ (\/ RLe(chain.effects[chain.i].params.delay_time, Zero)
        \/ RLe(chain.effects[chain.i].params.feedback, Zero))

\* a stage other than the delay, or the delay called with degenerate
\* parameters, has left delay_buffer and delay_index as they were
StageLeavesLine ==
  (StageReturned /\ ~ DelayReturned)
    => delay_buffer = last.pre_buffer /\ delay_index = last.pre_index

\* an entry of a chain that is no delay running its loop leaves them as they
\* were too
EntryLeavesLine ==
  (pc = "chain" /\ chain.i <= Len(chain.effects) /\ ~ AtDelayEntry)
    => delay_buffer' = delay_buffer /\ delay_index' = delay_index

\* C17: only the delay stage changes the delay line: the seven other stages
\* and the delay with degenerate parameters leave delay_buffer and
\* delay_index unchanged, no call changes sample_rate, and a chain changes
\* the line only in its delay entries.
DelayLineFrame ==
  /\ [] StageLeavesLine
  /\ [][EntryLeavesLine /\ sample_rate' = sample_rate]_vars

\* a chain of a flanger and a filter has changed the buffer of a processor
\* whose line held samples, and the line is as it was
DelayLineFrameReached ==
  /\ ChainReturned /\ Len(last.effects) = 2
  /\ last.effects[1].type = "FLANGER" /\ last.effects[2].type = "FILTER"
  /\ last.res.err = "none" /\ last.res.val # last.audio
  /\ \E k \in 1..Len(delay_buffer) : delay_buffer[k] # Zero
  /\ delay_index # 0
  /\ delay_buffer = last.pre_buffer /\ delay_index = last.pre_index

\* C18: the caller's buffer holds after a stage call or a chain, and at every
\* point within a chain, the samples it held before: stages write to arrays
\* they allocate (and the delay to the delay line), the chain works on a copy.
InputNotMutated ==
  /\ (StageReturned \/ ChainReturned) => last.audio_after = last.audio
  /\ pc = "chain" => chain.audio_after = chain.audio /\ chain.ref # "audio"

\* a chain of a delay and a flanger, the two stages that write in place, has
\* returned another buffer than the caller's, which is as it was
InputNotMutatedReached ==
  /\ ChainReturned /\ Len(last.effects) = 2
  /\ last.effects[1].type = "DELAY" /\ last.effects[2].type = "FLANGER"
  /\ Len(last.audio) >= 2
  /\ last.res.err = "none" /\ last.res.val # last.audio
  /\ last.audio_after = last.audio

(***************************************************************************)
(* NoteGrid: playback control and note names.                              *)
(***************************************************************************)
\* C19: after start_playback the grid is playing and the playhead is 0,
\* whatever the grid held, an empty grid included; after stop_playback the
\* grid is not playing.
PlaybackControl ==
  /\ grid_call.op = "start_playback" => is_playing /\ playhead = 0
  /\ grid_call.op = "stop_playback" => ~ is_playing

\* the position lies in the grid
InGrid(pos) ==
  /\ pos # <<>>
  /\ pos[1] \in 0..(grid_height - 1)
  /\ pos[2] \in 0..(grid_width - 1)

\* C20: get_note_name returns "---" for every position outside the grid, a
\* negative row or column included, and a note name only inside the grid.
NoteNameOutsideGrid ==
  (grid_call.op = "get_note_name" /\ ~ InGrid(grid_call.pos)) => grid_call.res = Dashes

\* C21: tempo never leaves 60..200: a tempo-up press at 200 and a tempo-down
\* press at 60 leave it where it is, and an assignment of a value above 200
\* or below 60 leaves it at 200 or at 60.
TempoLimits ==
  /\ tempo \in 60..200
  /\ (grid_call.op = "tempo-up" /\ grid_call.was = 200) => tempo = 200
  /\ (grid_call.op = "tempo-down" /\ grid_call.was = 60) => tempo = 60
  /\ (grid_call.op = "set_tempo" /\ grid_call.value > 200) => tempo = 200
  /\ (grid_call.op = "set_tempo" /\ grid_call.value < 60) => tempo = 60

(***************************************************************************)
(* The modulated stages: chorus, flanger, tremolo.                         *)
(***************************************************************************)
\* a chorus or a flanger has run its loop on a buffer that holds samples
ModulationReturned ==
  /\ StageReturned /\ last.type \in {"CHORUS", "FLANGER"}
  /\ ~ (RLe(last.params.rate, Zero) \/ RLe(last.params.depth, Zero))
  /\ Len(last.audio) > 0

\* the integer LFO offset at index i of the call
OffsetAt(i) ==
  LfoOffsets(sample_rate, Len(last.audio), last.params.rate, last.params.depth)[i + 1]

\* C22: chorus and flanger complete without an index error on every buffer
\* that holds samples, for rate > 0 and depth > 0; the chorus reads
\* input[i - offset_i] only when 0 <= i - offset_i < N and writes 0 otherwise.
ModulationTotal ==
  ModulationReturned
    => /\ last.res.err = "none"
       /\ last.type = "CHORUS"
            => \A i \in 0..(Len(last.audio) - 1) :
                 At(last.res.val, i)
                   = RAdd(RMul(RSub(One, last.params.mix), At(last.audio, i)),
                          RMul(last.params.mix,
                               IF i - OffsetAt(i) \in 0..(Len(last.audio) - 1)
                               THEN At(last.audio, i - OffsetAt(i)) ELSE Zero))

\* a chorus, a flanger or a tremolo has computed its LFO
LfoReturned ==
  /\ StageReturned /\ last.type \in {"CHORUS", "FLANGER", "TREMOLO"}
  /\ ~ (RLe(last.params.rate, Zero) \/ RLe(last.params.depth, Zero))

\* C23: the time of sample i of the LFO is i / sample_rate, whatever the
\* length of the buffer; the tremolo multiplies sample i by
\* 1 - depth * (1 + sin(2 pi rate i / sample_rate)) / 2.
LfoTimeBase ==
  LfoReturned
    => \A i \in 0..(Len(last.audio) - 1) :
         /\ LfoTime(sample_rate, Len(last.audio))[i + 1] = Q(i, sample_rate)
         /\ last.type = "TREMOLO"
              => At(last.res.val, i)
                   = RMul(At(last.audio, i),
                          RSub(One, RDiv(RMul(last.params.depth,
                                              RAdd(One, SinTurns(RMul(last.params.rate,
                                                                      Q(i, sample_rate))))),
                                         Q(2, 1))))

\* a flanger has run its feedback pass to the end on a buffer that holds
\* samples
FlangerReturned ==
  /\ StageReturned /\ last.type = "FLANGER"
  /\ ~ (RLe(last.params.rate, Zero) \/ RLe(last.params.depth, Zero))
  /\ Len(last.audio) > 0
  /\ last.res.err = "none"

\* the buffer after the feedback pass of the call
FeedbackPass ==
  FlangerLoop(LfoOffsets(sample_rate, Len(last.audio), last.params.rate, last.params.depth),
              last.params.feedback, 0, last.audio).val

\* C24: if the buffer after the feedback pass has a non-zero sample, the
\* flanger returns it rescaled to a peak absolute value of 0.8: every
\* |y[i]| <= 0.8 and some |y[i]| = 0.8; if it is all zeros, it returns zeros.
FlangerPeak ==
  FlangerReturned
    => LET pass == FeedbackPass
           y == last.res.val
           peak == SeqMax(AbsAll(pass))
       IN  /\ Len(y) = Len(pass)
           /\ IF \E k \in 1..Len(pass) : pass[k] # Zero
              THEN /\ \A k \in 1..Len(y) : RLe(RAbs(y[k]), Q(8, 10))
                   /\ \E k \in 1..Len(y) : RAbs(y[k]) = Q(8, 10)
                   /\ \A k \in 1..Len(y) : RMul(y[k], peak) = RMul(pass[k], Q(8, 10))
              ELSE \A k \in 1..Len(y) : y[k] = Zero

\* the feedback pass has raised a sample above 0.8 and changed the buffer, and
\* the flanger has returned a peak of 0.8
FlangerPeakReached ==
  /\ FlangerReturned
  /\ FeedbackPass # last.audio
  /\ \E k \in 1..Len(last.audio) : RGt(RAbs(FeedbackPass[k]), Q(8, 10))
  /\ \E k \in 1..Len(last.audio) : last.res.val[k] # Zero /\ RAbs(last.res.val[k]) # Q(8, 10)
  /\ \E k \in 1..Len(last.audio) : RAbs(last.res.val[k]) = Q(8, 10)

\* the feedback pass has left a buffer of zeros, which the flanger returns
FlangerSilentReached ==
  /\ FlangerReturned
  /\ \A k \in 1..Len(last.audio) : FeedbackPass[k] = Zero
  /\ last.res.val = FeedbackPass

(***************************************************************************)
(* The band-pass filter.                                                   *)
(***************************************************************************)
\* a filter call with cutoff > 0 has returned
FilterReturned ==
  /\ StageReturned /\ last.type = "FILTER"
  /\ RGt(last.params.cutoff, Zero)

\* C25: a bandpass filter with cutoff > 0 on a buffer of N >= 2 samples
\* returns y[0] = 0 and y[1] = 0 whatever x[0] and x[1] are, and
\* y[i] = (b0 x[i] + b2 x[i-2] - a1 y[i-1] - a2 y[i-2]) / a0 for i >= 2; a
\* filter_type other than lowpass, highpass and bandpass returns the input.
BandpassEdge ==
  FilterReturned
    => LET x == last.audio
           y == last.res.val
           c == BandpassCoefficients(NormalizedCutoff(sample_rate, last.params.cutoff),
                                     last.params.resonance)
       IN  /\ (last.params.filter_type = "bandpass" /\ Len(x) >= 2)
                => /\ last.res.err = "none" /\ Len(y) = Len(x)
                   /\ At(y, 0) = Zero /\ At(y, 1) = Zero
                   /\ \A i \in 2..(Len(x) - 1) :
                        At(y, i) = RDiv(RSub(RSub(RAdd(RMul(c.b0, At(x, i)),
                                                       RMul(c.b2, At(x, i - 2))),
                                                  RMul(c.a1, At(y, i - 1))),
                                             RMul(c.a2, At(y, i - 2))),
                                        c.a0)
           /\ last.params.filter_type \notin {"lowpass", "highpass", "bandpass"}
                => last.res.err = "none" /\ y = x

\* a bandpass has returned two zeros for two non-zero samples and then two
\* samples, the second fed by the first
BandpassEdgeReached ==
  /\ FilterReturned /\ last.params.filter_type = "bandpass"
  /\ Len(last.audio) >= 4
  /\ At(last.audio, 0) # Zero /\ At(last.audio, 1) # Zero
  /\ At(last.res.val, 0) = Zero /\ At(last.res.val, 1) = Zero
  /\ At(last.res.val, 2) # Zero /\ At(last.res.val, 3) # Zero

(***************************************************************************)
(* The first delay call of a processor.                                    *)
(***************************************************************************)
\* a delay has run its loop on the line as __init__ leaves it
FreshDelayReturned ==
  /\ DelayReturned
  /\ last.pre_buffer = Zeros(Capacity(sample_rate)) /\ last.pre_index = 0

FreshDelayWrapped ==
  /\ FreshDelayReturned
  /\ Len(last.audio) > Capacity(sample_rate)
  /\ last.res.val # last.audio

(***************************************************************************)
(* The compressor as an attenuator.                                        *)
(***************************************************************************)
\* C27: for threshold > 0, ratio > 1 and sample counts >= 1 the compressor
\* never amplifies and never flips the sign: |output[i]| <= |input[i]| and
\* output[i] has the sign of input[i], the factor gain / envelope being in
\* (0, 1] whenever envelope > threshold.
CompressorAttenuates ==
  CompressorReturned
    => /\ last.res.err = "none" /\ Len(last.res.val) = Len(last.audio)
       /\ \A i \in 0..(Len(last.audio) - 1) :
            /\ RLe(RAbs(At(last.res.val, i)), RAbs(At(last.audio, i)))
            /\ Sgn(At(last.res.val, i)[1]) = Sgn(At(last.audio, i)[1])
            /\ RGt(EnvelopeAt(i), last.params.threshold)
                 => LET gain == RAdd(last.params.threshold,
                                     RDiv(RSub(EnvelopeAt(i), last.params.threshold),
                                          last.params.ratio))
                    IN  /\ RGt(RDiv(gain, EnvelopeAt(i)), Zero)
                        /\ RLe(RDiv(gain, EnvelopeAt(i)), One)

\* a negative and a positive sample have both come out smaller and with
\* their signs
CompressorAttenuatesReached ==
  /\ CompressorReturned
  /\ \E i \in 0..(Len(last.audio) - 1) :
       /\ RLt(At(last.audio, i), Zero) /\ RLt(At(last.res.val, i), Zero)
       /\ RLt(RAbs(At(last.res.val, i)), RAbs(At(last.audio, i)))
  /\ \E i \in 0..(Len(last.audio) - 1) :
       /\ RGt(At(last.audio, i), Zero) /\ RGt(At(last.res.val, i), Zero)
       /\ RLt(RAbs(At(last.res.val, i)), RAbs(At(last.audio, i)))

(***************************************************************************)
(* The effects command.                                                    *)
(***************************************************************************)
\* the effects command has run the chain it built
CliReturned == pc = "returned" /\ last.kind = "cli" /\ last.called

SingleLoop ==
  /\ Len(tasks) <= 1
  /\ playhead \in 0..(grid_width - 1)

(***************************************************************************)
(* ProjectManager: the open project.                                       *)
(***************************************************************************)
\* the last call was one of the sequence calls, made with no project open
SequenceCallWithoutProject ==
  /\ pm_call.op \in {"save_sequence", "load_sequence", "list_sequences", "delete_sequence"}
  /\ pm_call.pre_current = <<>>

\* C30: current_project is None or a key of projects after any sequence of
\* create_project, open_project, close_project, delete_project, save_sequence
\* and delete_sequence calls; the sequence calls made with no project open
\* return their failure value and leave projects and current_project as they
\* were.
OpenProjectInvariant ==
  /\ current_project = <<>> \/ current_project[1] \in DOMAIN projects
  /\ SequenceCallWithoutProject
       => /\ pm_call.op \in {"save_sequence", "delete_sequence"} => pm_call.res = FALSE
          /\ pm_call.op \in {"load_sequence", "list_sequences"} => pm_call.res = <<>>
          /\ projects = pm_call.pre_projects
          /\ current_project = <<>>

\* the open project, which holds a sequence, has been deleted beside another
\* project: no project is open and the other one is still there
OpenProjectInvariantReached ==
  /\ pm_call.op = "delete_project" /\ pm_call.res = TRUE
  /\ pm_call.pre_current = <<pm_call.arg>>
  /\ pm_call.pre_projects[pm_call.arg].sequences # <<>>
  /\ current_project = <<>>
  /\ pm_call.arg \notin DOMAIN projects
  /\ DOMAIN projects # {}

\* save_sequence with no project open has returned False on a manager that
\* holds projects
SaveWithoutProjectReached ==
  /\ pm_call.op = "save_sequence" /\ pm_call.pre_current = <<>>
  /\ pm_call.res = FALSE
  /\ DOMAIN projects # {} /\ projects = pm_call.pre_projects

====
